---- MODULE Spec2Model ----
(***************************************************************************)
(* Treewise: an in-memory forest with an id index (src/treewise.ts, class  *)
(* Treewise, lines 664-1515).                                              *)
(*                                                                         *)
(* Node objects are modelled by handles 1..MaxNodes.  A handle that is in  *)
(* `created` is an object the caller can hold and pass to any public       *)
(* method, whether or not the forest still owns it.  `children[n] = <<>>`  *)
(* stands for both an absent and an empty children array: every branch of  *)
(* the code that tests `node.children` behaves the same on the two.        *)
(***************************************************************************)
EXTENDS Integers, Sequences, FiniteSets, TLC

\* ---------------------------------------------------------------- bounds
\* Node objects the caller and the forest build in one run.
MaxNodes == 3
\* Entries of roots and of all children arrays together.
MaxSlots == 3
\* Length of the lists handed to addChildren and removeChildren.
MaxBatch == 2
\* Calls in one run that break the usage contract (see Misuse below).
MaxMisuse == 1
\* Handler functions the caller has, and entries of all handler lists
\* together.
MaxHandlers == 2
MaxRegistrations == 2
\* deserialize calls whose input has not resolved yet.
MaxPending == 1
\* Records in one flat array handed to deserializeFlat.
MaxRecords == 3

Nodes == 1..MaxNodes
\* Ids are only compared for equality, so one id per node object is enough
\* to have all-distinct ids, and a new value either takes the least id no
\* node carries or repeats the id of a node built earlier.
Ids == 1..MaxNodes
NoNode == 0
NoValue == 0

Handlers == 1..MaxHandlers
EventKinds == {"onNodeAdded", "onNodeRemoved", "onNodeUpdated", "onNodeMoved"}

VARIABLES created, idOf, parent, children, roots, nodeIndex, emitted, lastOp,
          misuses, eventHandlers, heard, views, pending, valueKeys

vars == <<created, idOf, parent, children, roots, nodeIndex, emitted, lastOp,
          misuses, eventHandlers, heard, views, pending, valueKeys>>

\* The object graph and the forest's own fields, without the call record.
forest == <<parent, children, roots, nodeIndex>>

\* ------------------------------------------------------- sequence helpers
RECURSIVE IndexOfFrom(_, _, _)
IndexOfFrom(s, x, i) ==
  IF i > Len(s) THEN 0
  ELSE IF s[i] = x THEN i
  ELSE IndexOfFrom(s, x, i + 1)

\* Array.prototype.indexOf, 1-based; 0 stands for -1.
IndexOf(s, x) == IndexOfFrom(s, x, 1)

\* Array.prototype.splice(i, 1)
SpliceOut(s, i) == SubSeq(s, 1, i - 1) \o SubSeq(s, i + 1, Len(s))

Range(s) == {s[i] : i \in 1..Len(s)}

Reverse(s) == [i \in 1..Len(s) |-> s[Len(s) + 1 - i]]

Occurrences(s, x) == Cardinality({i \in 1..Len(s) : s[i] = x})

RECURSIVE SumLen(_, _)
SumLen(ch, S) ==
  IF S = {} THEN 0
  ELSE LET n == CHOOSE m \in S : TRUE
       IN Len(ch[n]) + SumLen(ch, S \ {n})

\* Number of owner slots in use: entries of roots and of all children arrays.
TotalSlots(rs, ch) == Len(rs) + SumLen(ch, Nodes)

\* ------------------------------------------------ recursive subtree walks
\* The visit sequence of the recursion shared by indexNodeAndChildren and
\* unindexNodeAndChildren: the node, then each child's walk in children
\* order.  `path` is the chain of calls still on the stack; meeting a node
\* of the path again means the recursion never returns, and `cyc` names it.
RECURSIVE Walk(_, _, _), WalkKids(_, _, _, _)
Walk(n, path, ch) ==
  IF n \in path THEN [seq |-> <<>>, cyc |-> n]
  ELSE WalkKids(ch[n], path \cup {n}, ch, <<n>>)

WalkKids(kids, path, ch, acc) ==
  IF kids = <<>> THEN [seq |-> acc, cyc |-> NoNode]
  ELSE LET r == Walk(Head(kids), path, ch)
       IN IF r.cyc # NoNode
          THEN [seq |-> acc \o r.seq, cyc |-> r.cyc]
          ELSE WalkKids(Tail(kids), path, ch, acc \o r.seq)

RECURSIVE SetAll(_, _, _)
SetAll(idx, visits, ido) ==
  IF visits = <<>> THEN idx
  ELSE SetAll([idx EXCEPT ![ido[Head(visits)]] = Head(visits)], Tail(visits), ido)

\* The part of a non-returning walk that repeats for ever: from the first
\* visit of the node met again up to the end of the recorded sequence.
Period(w) == SubSeq(w.seq, IndexOf(w.seq, w.cyc), Len(w.seq))

\* indexNodeAndChildren(node): Map.set(node.value.id, node) in visit order.
\* On a children cycle the recursion overflows the call stack somewhere in
\* the repeating part; `cut` is how far into that part the last set came.
IndexNodeAndChildren(idx, n, ch, ido, cut) ==
  LET w == Walk(n, {}, ch)
  IN IF w.cyc = NoNode
     THEN [idx |-> SetAll(idx, w.seq, ido), overflow |-> FALSE]
     ELSE [idx |-> SetAll(SetAll(idx, w.seq, ido), SubSeq(Period(w), 1, cut), ido),
           overflow |-> TRUE]

\* The cut points the stack limit can produce for indexing n.
Cuts(n, ch) ==
  LET w == Walk(n, {}, ch)
  IN IF w.cyc = NoNode THEN {0} ELSE 1..Len(Period(w))

\* unindexNodeAndChildren(node): Map.delete(node.value.id) in visit order.
\* Deleting is idempotent, so on a cycle the ids deleted before the stack
\* overflows are those of the nodes visited.
UnindexNodeAndChildren(idx, n, ch, ido) ==
  LET w == Walk(n, {}, ch)
      gone == {ido[w.seq[i]] : i \in 1..Len(w.seq)}
  IN [idx |-> [i \in Ids |-> IF i \in gone THEN NoNode ELSE idx[i]],
      overflow |-> w.cyc # NoNode]

\* ------------------------------------------------------------ parent walk
\* isAncestorOf(ancestor, descendant): walks descendant.parent upward.
\* "yes"/"no" as the loop returns; "hang" when the parent chain runs into a
\* cycle that does not contain `ancestor`, so the while loop never ends.
RECURSIVE AncestorLoop(_, _, _, _)
AncestorLoop(anc, cur, seen, par) ==
  IF cur = NoNode THEN "no"
  ELSE IF cur = anc THEN "yes"
  ELSE IF cur \in seen THEN "hang"
  ELSE AncestorLoop(anc, par[cur], seen \cup {cur}, par)

\* A check that looks at the direct parent only.
isAncestorOfParentOnly(anc, desc, par) ==
  IF par[desc] = anc THEN "yes" ELSE "no"

isAncestorOf(anc, desc, par) == AncestorLoop(anc, par[desc], {}, par)

\* getPath(node): unshift the node and each parent in turn.  On a parent
\* cycle the while loop never ends.
RECURSIVE PathLoop(_, _, _)
PathLoop(current, path, par) ==
  IF current = NoNode THEN [out |-> "ok", path |-> path]
  ELSE IF current \in Range(path) THEN [out |-> "hang", path |-> path]
  ELSE PathLoop(par[current], <<current>> \o path, par)

getPath(n, par) == PathLoop(n, <<>>, par)

\* getAncestors(node): push each parent in turn, starting at node.parent.
RECURSIVE AncestorsLoop(_, _, _)
AncestorsLoop(current, ancestors, par) ==
  IF current = NoNode THEN [out |-> "ok", ancestors |-> ancestors]
  ELSE IF current \in Range(ancestors) THEN [out |-> "hang", ancestors |-> ancestors]
  ELSE AncestorsLoop(par[current], Append(ancestors, current), par)

\* getAncestors with unshift in place of push.
getAncestorsRootFirst(n, par) ==
  LET r == AncestorsLoop(par[n], <<>>, par)
  IN [r EXCEPT !.ancestors = Reverse(@)]

getAncestors(n, par) == AncestorsLoop(par[n], <<>>, par)

\* commonAncestorIndex: how many leading entries the two paths share.
RECURSIVE CommonPrefix(_, _)
CommonPrefix(s, u) ==
  IF s = <<>> \/ u = <<>> THEN 0
  ELSE IF Head(s) # Head(u) THEN 0
  ELSE 1 + CommonPrefix(Tail(s), Tail(u))

\* findPath with the common ancestor left out of pathUp.
findPathWithoutTurn(from, to, par) ==
  LET fromPath == getPath(from, par)
      toPath == getPath(to, par)
      commonAncestorIndex == CommonPrefix(fromPath.path, toPath.path)
  IN IF fromPath.out # "ok" \/ toPath.out # "ok"
     THEN [out |-> "hang", found |-> FALSE, path |-> <<>>]
     ELSE IF commonAncestorIndex = 0
     THEN [out |-> "ok", found |-> FALSE, path |-> <<>>]
     ELSE [out |-> "ok", found |-> TRUE,
           path |-> Reverse(SubSeq(fromPath.path, commonAncestorIndex + 1,
                                   Len(fromPath.path)))
                    \o SubSeq(toPath.path, commonAncestorIndex + 1,
                              Len(toPath.path))]

\* findPath(from, to): null (found FALSE) when the paths share no leading
\* entry; else fromPath from the last shared entry on, reversed, then toPath
\* after the shared entries.
findPath(from, to, par) ==
  LET fromPath == getPath(from, par)
      toPath == getPath(to, par)
      commonAncestorIndex == CommonPrefix(fromPath.path, toPath.path)
  IN IF fromPath.out # "ok" \/ toPath.out # "ok"
     THEN [out |-> "hang", found |-> FALSE, path |-> <<>>]
     ELSE IF commonAncestorIndex = 0
     THEN [out |-> "ok", found |-> FALSE, path |-> <<>>]
     ELSE [out |-> "ok", found |-> TRUE,
           path |-> Reverse(SubSeq(fromPath.path, commonAncestorIndex,
                                   Len(fromPath.path)))
                    \o SubSeq(toPath.path, commonAncestorIndex + 1,
                              Len(toPath.path))]

\* --------------------------------------------------------- derived sets
RECURSIVE Closure(_, _)
Closure(S, ch) ==
  LET T == S \cup UNION {Range(ch[n]) : n \in S}
  IN IF T = S THEN S ELSE Closure(T, ch)

\* Nodes reachable from roots through children arrays.
ReachableIn(rs, ch) == Closure(Range(rs), ch)
Reachable == ReachableIn(roots, children)

\* A node and everything below it.
Subtree(n, ch) == Closure({n}, ch)

UsedIds == {idOf[m] : m \in created}
LeastFree(used) == CHOOSE i \in Ids \ used : \A j \in Ids \ used : i <= j

\* ------------------------------------------------------------------ calls
Call(op, out) == [op |-> op, out |-> out]

Event(kind, n) == [event |-> kind, node |-> n]

\* The caller is between two calls: the last one has returned or thrown and
\* its result has been taken.
Running == lastOp.op = "idle"

\* The mutable state a public method works on, threaded through the loops
\* of the batch methods; `out` is "ok" while no statement has thrown.
Here ==
  [created |-> created, idOf |-> idOf, parent |-> parent, children |-> children,
   roots |-> roots, nodeIndex |-> nodeIndex, emitted |-> <<>>, out |-> "ok",
   eventHandlers |-> eventHandlers, heard |-> <<>>, views |-> <<>>,
   valueKeys |-> valueKeys]

Fresh(S) == CHOOSE n \in Nodes \ S.created : \A m \in Nodes \ S.created : n <= m

\* What a handler finds when it looks at the forest during its call.
Snapshot(S) ==
  [roots |-> S.roots, children |-> S.children, parent |-> S.parent,
   nodeIndex |-> S.nodeIndex]

\* One handler call: handler(node), made for an event of kind `kind`.
Heard(h, kind, n) == [handler |-> h, event |-> kind, node |-> n]

\* emit walking the handler list from its end.
emitLastFirst(S, kind, n) ==
  LET handlers == Reverse(S.eventHandlers[kind])
  IN [S EXCEPT !.emitted = Append(@, Event(kind, n)),
               !.views = Append(@, Snapshot(S)),
               !.heard = @ \o [i \in 1..Len(handlers) |-> Heard(handlers[i], kind, n)]]

\* emit(event, node): calls every entry of eventHandlers[event] in list
\* order.  `emitted` logs the emit itself, `views` the forest at that moment,
\* `heard` the handler calls made.
emit(S, kind, n) ==
  LET handlers == S.eventHandlers[kind]
  IN [S EXCEPT !.emitted = Append(@, Event(kind, n)),
               !.views = Append(@, Snapshot(S)),
               !.heard = @ \o [i \in 1..Len(handlers) |-> Heard(handlers[i], kind, n)]]

\* on(event, handler)
on(eh, event, h) == [eh EXCEPT ![event] = Append(@, h)]

\* off(event, handler)
off(eh, event, h) ==
  LET index == IndexOf(eh[event], h)
  IN IF index # 0 THEN [eh EXCEPT ![event] = SpliceOut(@, index)] ELSE eh

\* emit(event, node) when the handler `caller` calls off(event, target) in
\* its call: for...of reads eventHandlers[event][position] from the live
\* array, position after position, until the position is past its end.
\* The value is the list of handlers called, in call order.
RECURSIVE emitWithOff(_, _, _, _, _)
emitWithOff(eh, event, position, caller, target) ==
  IF position > Len(eh[event]) THEN <<>>
  ELSE LET handler == eh[event][position]
           after == IF handler = caller THEN off(eh, event, target) ELSE eh
       IN <<handler>> \o emitWithOff(after, event, position + 1, caller, target)

\* addRoot(node)
addRoot(S, n, cut) ==
  LET r == IndexNodeAndChildren(S.nodeIndex, n, S.children, S.idOf, cut)
  IN [S EXCEPT !.parent = [@ EXCEPT ![n] = NoNode],
               !.roots = Append(@, n),
               !.nodeIndex = r.idx,
               !.out = IF r.overflow THEN "RangeError" ELSE "ok"]

\* removeAllRoots(): un-index every root's subtree, then roots = [].
\* A stack overflow in one root's walk leaves roots as it was.
RECURSIVE UnindexRoots(_, _, _, _)
UnindexRoots(idx, rs, ch, ido) ==
  IF rs = <<>> THEN [idx |-> idx, overflow |-> FALSE]
  ELSE LET r == UnindexNodeAndChildren(idx, Head(rs), ch, ido)
       IN IF r.overflow THEN r ELSE UnindexRoots(r.idx, Tail(rs), ch, ido)

removeAllRoots(S) ==
  LET r == UnindexRoots(S.nodeIndex, S.roots, S.children, S.idOf)
  IN IF r.overflow
     THEN [S EXCEPT !.nodeIndex = r.idx, !.out = "RangeError"]
     ELSE [S EXCEPT !.nodeIndex = r.idx, !.roots = <<>>]

\* addNodeAsChild with the emit moved up, ahead of the push and the index.
addNodeAsChildEmitFirst(S, p, v) ==
  IF p = NoNode \/ v = NoValue THEN [S EXCEPT !.out = "ErrMissingArgument"]
  ELSE LET n == Fresh(S)
           ido == [S.idOf EXCEPT ![n] = v]
           ch == [S.children EXCEPT ![p] = Append(@, n)]
           r == IndexNodeAndChildren(S.nodeIndex, n, ch, ido, 0)
           T == emit([S EXCEPT !.created = @ \cup {n},
                               !.idOf = ido,
                               !.parent = [@ EXCEPT ![n] = p]],
                     "onNodeAdded", n)
       IN [T EXCEPT !.children = ch, !.nodeIndex = r.idx]

\* addNodeAsChild(parentNode, childValue)
addNodeAsChild(S, p, v) ==
  IF p = NoNode \/ v = NoValue THEN [S EXCEPT !.out = "ErrMissingArgument"]
  ELSE LET n == Fresh(S)
           ido == [S.idOf EXCEPT ![n] = v]
           ch == [S.children EXCEPT ![p] = Append(@, n)]
           r == IndexNodeAndChildren(S.nodeIndex, n, ch, ido, 0)
       IN emit([S EXCEPT !.created = @ \cup {n},
                         !.idOf = ido,
                         !.parent = [@ EXCEPT ![n] = p],
                         !.children = ch,
                         !.nodeIndex = r.idx],
               "onNodeAdded", n)

\* addChildren(parentNode, childValues)
RECURSIVE AddLoop(_, _, _)
AddLoop(S, p, vals) ==
  IF vals = <<>> \/ S.out # "ok" THEN S
  ELSE AddLoop(addNodeAsChild(S, p, Head(vals)), p, Tail(vals))

\* addChildren looking at every value before it adds the first.
addChildrenAllOrNothing(S, p, vals) ==
  IF p = NoNode THEN [S EXCEPT !.out = "ErrInvalidArgument"]
  ELSE IF \E i \in 1..Len(vals) : vals[i] = NoValue
       THEN [S EXCEPT !.out = "ErrMissingArgument"]
       ELSE AddLoop(S, p, vals)

addChildren(S, p, vals) ==
  IF p = NoNode THEN [S EXCEPT !.out = "ErrInvalidArgument"]
  ELSE AddLoop(S, p, vals)

\* removeNode with the emit ahead of unindexNodeAndChildren.
removeNodeEmitFirst(S, t) ==
  IF t = NoNode THEN [S EXCEPT !.out = "ErrMissingArgument"]
  ELSE
  LET rootIndex == IndexOf(S.roots, t)
      p == S.parent[t]
      r == UnindexNodeAndChildren(S.nodeIndex, t, S.children, S.idOf)
      unindexed(T) ==
        IF r.overflow THEN [T EXCEPT !.nodeIndex = r.idx, !.out = "RangeError"]
        ELSE [emit(T, "onNodeRemoved", t) EXCEPT !.nodeIndex = r.idx]
  IN IF rootIndex # 0
     THEN unindexed([S EXCEPT !.roots = SpliceOut(@, rootIndex)])
     ELSE IF p = NoNode THEN [S EXCEPT !.out = "ErrNotFound"]
     ELSE LET index == IndexOf(S.children[p], t)
          IN IF index = 0 THEN [S EXCEPT !.out = "ErrNotFound"]
             ELSE unindexed([S EXCEPT !.children = [@ EXCEPT ![p] = SpliceOut(@, index)]])

\* removeNode without the `index === -1` test: splice(-1, 1) then takes the
\* last child of the recorded parent.
removeNodeUnchecked(S, t) ==
  IF t = NoNode THEN [S EXCEPT !.out = "ErrMissingArgument"]
  ELSE
  LET rootIndex == IndexOf(S.roots, t)
      p == S.parent[t]
      r == UnindexNodeAndChildren(S.nodeIndex, t, S.children, S.idOf)
      unindexed(T) ==
        IF r.overflow THEN [T EXCEPT !.nodeIndex = r.idx, !.out = "RangeError"]
        ELSE emit([T EXCEPT !.nodeIndex = r.idx], "onNodeRemoved", t)
  IN IF rootIndex # 0
     THEN unindexed([S EXCEPT !.roots = SpliceOut(@, rootIndex)])
     ELSE IF p = NoNode THEN [S EXCEPT !.out = "ErrNotFound"]
     ELSE LET index == IndexOf(S.children[p], t)
              at == IF index = 0 THEN Len(S.children[p]) ELSE index
          IN unindexed([S EXCEPT !.children = [@ EXCEPT ![p] = SpliceOut(@, at)]])

\* removeNode(targetNode)
removeNode(S, t) ==
  IF t = NoNode THEN [S EXCEPT !.out = "ErrMissingArgument"]
  ELSE
  LET rootIndex == IndexOf(S.roots, t)
      p == S.parent[t]
      r == UnindexNodeAndChildren(S.nodeIndex, t, S.children, S.idOf)
      unindexed(T) ==
        IF r.overflow THEN [T EXCEPT !.nodeIndex = r.idx, !.out = "RangeError"]
        ELSE emit([T EXCEPT !.nodeIndex = r.idx], "onNodeRemoved", t)
  IN IF rootIndex # 0
     THEN unindexed([S EXCEPT !.roots = SpliceOut(@, rootIndex)])
     ELSE IF p = NoNode THEN [S EXCEPT !.out = "ErrNotFound"]
     ELSE LET index == IndexOf(S.children[p], t)
          IN IF index = 0 THEN [S EXCEPT !.out = "ErrNotFound"]
             ELSE unindexed([S EXCEPT !.children = [@ EXCEPT ![p] = SpliceOut(@, index)]])

\* removeChildren(parentNode, childNodes)
RECURSIVE RemoveLoop(_, _, _)
RemoveLoop(S, p, ns) ==
  IF ns = <<>> \/ S.out # "ok" THEN S
  ELSE IF S.parent[Head(ns)] # p THEN [S EXCEPT !.out = "ErrNotChildOfParent"]
  ELSE RemoveLoop(removeNode(S, Head(ns)), p, Tail(ns))

removeChildren(S, p, ns) ==
  IF p = NoNode THEN [S EXCEPT !.out = "ErrInvalidArgument"]
  ELSE RemoveLoop(S, p, ns)

\* moveNode without `node.parent = newParent`.
moveNodeKeepParent(S, n, np) ==
  IF n = NoNode \/ np = NoNode THEN [S EXCEPT !.out = "ErrMissingArgument"]
  ELSE
  LET anc == isAncestorOf(n, np, S.parent)
      rootIndex == IndexOf(S.roots, n)
      old == S.parent[n]
      index == IF old = NoNode THEN 0 ELSE IndexOf(S.children[old], n)
      rs == IF rootIndex # 0 THEN SpliceOut(S.roots, rootIndex) ELSE S.roots
      ch1 == IF rootIndex = 0 /\ index # 0
             THEN [S.children EXCEPT ![old] = SpliceOut(@, index)]
             ELSE S.children
  IN IF anc = "yes" THEN [S EXCEPT !.out = "ErrCircularReference"]
     ELSE IF anc = "hang" THEN [S EXCEPT !.out = "hang"]
     ELSE emit([S EXCEPT !.roots = rs,
                         !.children = [ch1 EXCEPT ![np] = Append(@, n)]],
               "onNodeMoved", n)

\* moveNode(node, newParent)
moveNode(S, n, np) ==
  IF n = NoNode \/ np = NoNode THEN [S EXCEPT !.out = "ErrMissingArgument"]
  ELSE
  LET anc == isAncestorOf(n, np, S.parent)
      rootIndex == IndexOf(S.roots, n)
      old == S.parent[n]
      index == IF old = NoNode THEN 0 ELSE IndexOf(S.children[old], n)
      rs == IF rootIndex # 0 THEN SpliceOut(S.roots, rootIndex) ELSE S.roots
      ch1 == IF rootIndex = 0 /\ index # 0
             THEN [S.children EXCEPT ![old] = SpliceOut(@, index)]
             ELSE S.children
  IN IF anc = "yes" THEN [S EXCEPT !.out = "ErrCircularReference"]
     ELSE IF anc = "hang" THEN [S EXCEPT !.out = "hang"]
     ELSE emit([S EXCEPT !.roots = rs,
                         !.parent = [@ EXCEPT ![n] = np],
                         !.children = [ch1 EXCEPT ![np] = Append(@, n)]],
               "onNodeMoved", n)

\* -------------------------------------------------------------- traversal
NoLimit == -1

Entries(kids, d) == [i \in 1..Len(kids) |-> [node |-> kids[i], depth |-> d]]

\* A popped entry at depth MaxNodes lies on a path of more nodes than exist,
\* so the children links loop and the while loop never empties its stack.
TooDeep(e) == e.depth >= MaxNodes

\* The pre-order loop pushing the children first to last, so that the last
\* child is popped first.
RECURSIVE PreOrderLoopForward(_, _, _, _)
PreOrderLoopForward(stack, out, ch, maxDepth) ==
  IF stack = <<>> THEN [visits |-> out, diverges |-> FALSE]
  ELSE LET top == stack[Len(stack)]
           rest == SubSeq(stack, 1, Len(stack) - 1)
       IN IF TooDeep(top) THEN [visits |-> out, diverges |-> TRUE]
          ELSE IF maxDepth # NoLimit /\ top.depth >= maxDepth
          THEN PreOrderLoopForward(rest, Append(out, top), ch, maxDepth)
          ELSE PreOrderLoopForward(rest \o Entries(ch[top.node], top.depth + 1),
                                   Append(out, top), ch, maxDepth)

\* traverseSubtree, strategy 'pre-order': pop, visit, push the children in
\* reverse.
RECURSIVE PreOrderLoop(_, _, _, _)
PreOrderLoop(stack, out, ch, maxDepth) ==
  IF stack = <<>> THEN [visits |-> out, diverges |-> FALSE]
  ELSE LET top == stack[Len(stack)]
           rest == SubSeq(stack, 1, Len(stack) - 1)
       IN IF TooDeep(top) THEN [visits |-> out, diverges |-> TRUE]
          ELSE IF maxDepth # NoLimit /\ top.depth >= maxDepth
          THEN PreOrderLoop(rest, Append(out, top), ch, maxDepth)
          ELSE PreOrderLoop(rest \o Reverse(Entries(ch[top.node], top.depth + 1)),
                            Append(out, top), ch, maxDepth)

\* The post-order loops with the children pushed onto stack1 last to first.
RECURSIVE PostOrderLoopReversed(_, _, _, _)
PostOrderLoopReversed(stack1, stack2, ch, maxDepth) ==
  IF stack1 = <<>> THEN [visits |-> Reverse(stack2), diverges |-> FALSE]
  ELSE LET top == stack1[Len(stack1)]
           rest == SubSeq(stack1, 1, Len(stack1) - 1)
       IN IF TooDeep(top) THEN [visits |-> <<>>, diverges |-> TRUE]
          ELSE IF maxDepth # NoLimit /\ top.depth >= maxDepth
          THEN PostOrderLoopReversed(rest, Append(stack2, top), ch, maxDepth)
          ELSE PostOrderLoopReversed(rest \o Reverse(Entries(ch[top.node], top.depth + 1)),
                                     Append(stack2, top), ch, maxDepth)

\* traverseSubtree, strategy 'post-order': the first loop fills stack2, the
\* second pops it.
RECURSIVE PostOrderLoop(_, _, _, _)
PostOrderLoop(stack1, stack2, ch, maxDepth) ==
  IF stack1 = <<>> THEN [visits |-> Reverse(stack2), diverges |-> FALSE]
  ELSE LET top == stack1[Len(stack1)]
           rest == SubSeq(stack1, 1, Len(stack1) - 1)
       IN IF TooDeep(top) THEN [visits |-> <<>>, diverges |-> TRUE]
          ELSE IF maxDepth # NoLimit /\ top.depth >= maxDepth
          THEN PostOrderLoop(rest, Append(stack2, top), ch, maxDepth)
          ELSE PostOrderLoop(rest \o Entries(ch[top.node], top.depth + 1),
                             Append(stack2, top), ch, maxDepth)

traverseSubtree(startNode, strategy, startDepth, ch, maxDepth) ==
  LET start == <<[node |-> startNode, depth |-> startDepth]>>
  IN IF strategy = "pre-order"
     THEN PreOrderLoop(start, <<>>, ch, maxDepth)
     ELSE PostOrderLoop(start, <<>>, ch, maxDepth)

\* traverse(callback, strategy, maxDepth): the callback's calls in order.
RECURSIVE traverse(_, _, _, _)
traverse(rs, strategy, ch, maxDepth) ==
  IF rs = <<>> THEN [visits |-> <<>>, diverges |-> FALSE]
  ELSE LET t == traverseSubtree(Head(rs), strategy, 0, ch, maxDepth)
           u == traverse(Tail(rs), strategy, ch, maxDepth)
       IN IF t.diverges THEN t
          ELSE [visits |-> t.visits \o u.visits, diverges |-> u.diverges]

\* The breadth-first loop with `depth > maxDepth` as its test.
RECURSIVE BreadthFirstLoopPastLimit(_, _, _, _)
BreadthFirstLoopPastLimit(queue, out, ch, maxDepth) ==
  IF queue = <<>> THEN [visits |-> out, diverges |-> FALSE]
  ELSE LET first == Head(queue)
           rest == Tail(queue)
       IN IF TooDeep(first) THEN [visits |-> out, diverges |-> TRUE]
          ELSE IF maxDepth # NoLimit /\ first.depth > maxDepth
          THEN BreadthFirstLoopPastLimit(rest, Append(out, first), ch, maxDepth)
          ELSE BreadthFirstLoopPastLimit(rest \o Entries(ch[first.node], first.depth + 1),
                                         Append(out, first), ch, maxDepth)

\* traverseBreadthFirst: the while loop over one root's queue; shift takes
\* the head, push appends the children.
RECURSIVE BreadthFirstLoop(_, _, _, _)
BreadthFirstLoop(queue, out, ch, maxDepth) ==
  IF queue = <<>> THEN [visits |-> out, diverges |-> FALSE]
  ELSE LET first == Head(queue)
           rest == Tail(queue)
       IN IF TooDeep(first) THEN [visits |-> out, diverges |-> TRUE]
          ELSE IF maxDepth # NoLimit /\ first.depth >= maxDepth
          THEN BreadthFirstLoop(rest, Append(out, first), ch, maxDepth)
          ELSE BreadthFirstLoop(rest \o Entries(ch[first.node], first.depth + 1),
                                Append(out, first), ch, maxDepth)

\* The same loop over one queue that starts with every root.
traverseBreadthFirstOneQueue(rs, ch, maxDepth) ==
  BreadthFirstLoop(Entries(rs, 0), <<>>, ch, maxDepth)

\* traverseBreadthFirst(callback, maxDepth): a new queue for each root.
RECURSIVE traverseBreadthFirst(_, _, _)
traverseBreadthFirst(rs, ch, maxDepth) ==
  IF rs = <<>> THEN [visits |-> <<>>, diverges |-> FALSE]
  ELSE LET t == BreadthFirstLoop(Entries(<<Head(rs)>>, 0), <<>>, ch, maxDepth)
           u == traverseBreadthFirst(Tail(rs), ch, maxDepth)
       IN IF t.diverges THEN t
          ELSE [visits |-> t.visits \o u.visits, diverges |-> u.diverges]

\* countNodes(): Map.size
countNodes(idx) == Cardinality({i \in Ids : idx[i] # NoNode})

\* findById(id)
findById(idx, i) == idx[i]

\* ------------------------------------------------------------ validation
\* One entry of validateTree's errors: "circular" (Circular reference
\* detected at node id), "parent" (Inconsistent parent reference at node
\* id), "root" (Root node id has a parent reference) or "duplicate"
\* (Duplicate ID id found count times).
Error(kind, i, count) == [kind |-> kind, id |-> i, count |-> count]

\* checkCircular(node, path), with errors and visitedNodes in `acc`; each
\* child is checked against a copy of the path.
RECURSIVE checkCircular(_, _, _, _), CheckChildren(_, _, _, _, _)
checkCircular(acc, node, path, S) ==
  IF node \in path
  THEN [acc EXCEPT !.errors = Append(@, Error("circular", S.idOf[node], 0))]
  ELSE IF node \in acc.visitedNodes THEN acc
  ELSE CheckChildren([acc EXCEPT !.visitedNodes = @ \cup {node}], node,
                     S.children[node], path \cup {node}, S)

CheckChildren(acc, node, kids, path, S) ==
  IF kids = <<>> THEN acc
  ELSE LET child == Head(kids)
           checked == IF S.parent[child] # node
                      THEN [acc EXCEPT !.errors =
                              Append(@, Error("parent", S.idOf[child], 0))]
                      ELSE acc
       IN CheckChildren(checkCircular(checked, child, path, S), node,
                        Tail(kids), path, S)

\* for (const root of this.roots): the parent test, then checkCircular
\* with an empty path.
RECURSIVE CheckRoots(_, _, _)
CheckRoots(acc, rs, S) ==
  IF rs = <<>> THEN acc
  ELSE LET root == Head(rs)
           checked == IF S.parent[root] # NoNode
                      THEN [acc EXCEPT !.errors =
                              Append(@, Error("root", S.idOf[root], 0))]
                      ELSE acc
       IN CheckRoots(checkCircular(checked, root, {}, S), Tail(rs), S)

\* The duplicate errors for the ids counted, in the order idCounts met them.
RECURSIVE DuplicateErrors(_, _)
DuplicateErrors(ids, k) ==
  IF k > Len(ids) THEN <<>>
  ELSE (IF /\ \A j \in 1..(k - 1) : ids[j] # ids[k]
           /\ Occurrences(ids, ids[k]) > 1
        THEN <<Error("duplicate", ids[k], Occurrences(ids, ids[k]))>>
        ELSE <<>>) \o DuplicateErrors(ids, k + 1)

\* validateTree without the duplicate pass.
validateTreeLinksOnly(S) ==
  LET links == CheckRoots([errors |-> <<>>, visitedNodes |-> {}], S.roots, S)
  IN [out |-> "ok", valid |-> links.errors = <<>>, errors |-> links.errors]

\* validateTree(): the checks of the links, then the duplicate pass, which
\* counts ids in a pre-order traverse without maxDepth and so never ends on
\* a children cycle below a root.
validateTree(S) ==
  LET links == CheckRoots([errors |-> <<>>, visitedNodes |-> {}], S.roots, S)
      t == traverse(S.roots, "pre-order", S.children, NoLimit)
      ids == [i \in 1..Len(t.visits) |-> S.idOf[t.visits[i].node]]
      errors == links.errors \o DuplicateErrors(ids, 1)
  IN IF t.diverges THEN [out |-> "hang", valid |-> FALSE, errors |-> links.errors]
     ELSE [out |-> "ok", valid |-> errors = <<>>, errors |-> errors]

\* hasCircularReference()
hasCircularReference(S) ==
  LET r == validateTree(S) IN [out |-> r.out, value |-> ~r.valid]

\* ------------------------------------------------------------ deserialize
\* private treeVersion = 1
treeVersion == 1
\* The version of the text in the test 'throws on version mismatch'.
otherVersion == 9999

\* A serialized node: its value's id, the names of the value's other
\* properties, and its children array.
Written(i, keys, kids) == [id |-> i, keys |-> keys, children |-> kids]
Leaf(i) == Written(i, {}, <<>>)
Tree(i, kids) == Written(i, {}, kids)

\* What JSON.parse finds in the text: a version and, when `isArray`, the
\* roots array.
Json(version, isArray, rs) ==
  [kind |-> "json", version |-> version, isArray |-> isArray, roots |-> rs]

\* A roots entry `{}`: an object without value.
NoValueEntry == Written(NoValue, {}, <<>>)

\* The texts a data promise resolves with: forests of up to two nodes (one
\* of them with an id twice), a roots array whose second entry has no
\* value, texts of another version with and without a roots array, a text
\* of the right version without one, a text that is no JSON (JSON.parse
\* throws), and the text `null` (reading parsed.version throws).
Texts ==
  {Json(treeVersion, TRUE, rs) :
     rs \in {<<>>, <<Leaf(1)>>, <<Tree(1, <<Leaf(2)>>)>>, <<Leaf(1), Leaf(2)>>,
             <<Leaf(1), Leaf(1)>>, <<Leaf(1), NoValueEntry>>}}
  \cup {Json(otherVersion, TRUE, <<>>), Json(otherVersion, FALSE, <<>>),
        Json(treeVersion, FALSE, <<>>)}
  \cup {[kind |-> k, version |-> NoValue, isArray |-> FALSE, roots |-> <<>>] :
          k \in {"garbage", "null"}}

\* Node objects a text's roots array holds.
RECURSIVE Size(_)
Size(trees) ==
  IF trees = <<>> THEN 0
  ELSE 1 + Size(Head(trees).children) + Size(Tail(trees))

\* JSON.parse: a new object for every node of the text, with its children
\* array and no parent.
RECURSIVE parseNodes(_, _)
parseNodes(S, trees) ==
  IF trees = <<>> THEN [S |-> S, nodes |-> <<>>]
  ELSE LET n == Fresh(S)
           S1 == [S EXCEPT !.created = @ \cup {n},
                           !.idOf = [@ EXCEPT ![n] = Head(trees).id],
                           !.valueKeys = [@ EXCEPT ![n] = Head(trees).keys],
                           !.parent = [@ EXCEPT ![n] = NoNode]]
           kids == parseNodes(S1, Head(trees).children)
           S2 == [kids.S EXCEPT !.children = [@ EXCEPT ![n] = kids.nodes]]
           rest == parseNodes(S2, Tail(trees))
       IN [S |-> rest.S, nodes |-> <<n>> \o rest.nodes]

\* reconstructParentReferences(node, parent), on the tree JSON.parse built.
RECURSIVE reconstructParentReferences(_, _, _, _), ReconstructAll(_, _, _, _)
reconstructParentReferences(par, n, p, ch) ==
  ReconstructAll([par EXCEPT ![n] = p], ch[n], n, ch)

ReconstructAll(par, ns, p, ch) ==
  IF ns = <<>> THEN par
  ELSE ReconstructAll(reconstructParentReferences(par, Head(ns), p, ch),
                      Tail(ns), p, ch)

\* for (const root of this.roots) { reconstructParentReferences;
\* indexNodeAndChildren }
\* At an object without value, indexNodeAndChildren throws a TypeError on
\* node.value.id, after the Map.set calls for the nodes walked before it.
RECURSIVE RebuildLoop(_, _)
RebuildLoop(S, rs) ==
  IF rs = <<>> THEN S
  ELSE LET par == reconstructParentReferences(S.parent, Head(rs), NoNode, S.children)
           r == IndexNodeAndChildren(S.nodeIndex, Head(rs), S.children, S.idOf, 0)
           w == Walk(Head(rs), {}, S.children).seq
           bare == {k \in 1..Len(w) : S.idOf[w[k]] = NoValue}
           stop == CHOOSE k \in bare : \A j \in bare : k <= j
       IN IF bare = {}
          THEN RebuildLoop([S EXCEPT !.parent = par, !.nodeIndex = r.idx], Tail(rs))
          ELSE [S EXCEPT !.parent = par,
                         !.nodeIndex = SetAll(@, SubSeq(w, 1, stop - 1), S.idOf),
                         !.out = "TypeError"]

\* deserialize without nodeIndex.clear().
deserializeKeepIndex(S, text) ==
  IF text.kind = "garbage" THEN [S EXCEPT !.out = "SyntaxError"]
  ELSE IF text.kind = "null" THEN [S EXCEPT !.out = "TypeError"]
  ELSE IF text.version # treeVersion THEN [S EXCEPT !.out = "ErrVersionMismatch"]
  ELSE IF ~text.isArray THEN [S EXCEPT !.out = "ErrInvalidFormat"]
  ELSE LET parsed == parseNodes(S, text.roots)
       IN RebuildLoop([parsed.S EXCEPT !.roots = parsed.nodes], parsed.nodes)

\* deserialize with the roots test ahead of the version test.
deserializeRootsFirst(S, text) ==
  IF text.kind = "garbage" THEN [S EXCEPT !.out = "SyntaxError"]
  ELSE IF text.kind = "null" THEN [S EXCEPT !.out = "TypeError"]
  ELSE IF ~text.isArray THEN [S EXCEPT !.out = "ErrInvalidFormat"]
  ELSE IF text.version # treeVersion THEN [S EXCEPT !.out = "ErrVersionMismatch"]
  ELSE LET parsed == parseNodes(S, text.roots)
       IN RebuildLoop([parsed.S EXCEPT !.roots = parsed.nodes,
                                       !.nodeIndex = [i \in Ids |-> NoNode]],
                      parsed.nodes)

\* deserialize(dataPromise), from the point where the awaited text is there.
deserialize(S, text) ==
  IF text.kind = "garbage" THEN [S EXCEPT !.out = "SyntaxError"]
  ELSE IF text.kind = "null" THEN [S EXCEPT !.out = "TypeError"]
  ELSE IF text.version # treeVersion THEN [S EXCEPT !.out = "ErrVersionMismatch"]
  ELSE IF ~text.isArray THEN [S EXCEPT !.out = "ErrInvalidFormat"]
  ELSE LET parsed == parseNodes(S, text.roots)
       IN RebuildLoop([parsed.S EXCEPT !.roots = parsed.nodes,
                                       !.nodeIndex = [i \in Ids |-> NoNode]],
                      parsed.nodes)

\* -------------------------------------------------------------- serialize
\* The forest of `new Treewise()`.
NewForest ==
  [created |-> {}, idOf |-> [n \in Nodes |-> NoValue],
   parent |-> [n \in Nodes |-> NoNode], children |-> [n \in Nodes |-> <<>>],
   roots |-> <<>>, nodeIndex |-> [i \in Ids |-> NoNode], emitted |-> <<>>,
   out |-> "ok", eventHandlers |-> [k \in EventKinds |-> <<>>],
   heard |-> <<>>, views |-> <<>>, valueKeys |-> [n \in Nodes |-> {}]]

\* Names a value's own properties can share with the fields of a node or of
\* a flat record.
KeyNames == {"parent", "parentId"}

\* JSON.stringify(data, replacer) below the roots array: the replacer
\* returns undefined for every key "parent", the node's and the value's.
RECURSIVE stringify(_, _, _, _)
stringify(ns, ch, ido, keys) ==
  [i \in 1..Len(ns) |->
     Written(ido[ns[i]], keys[ns[i]] \ {"parent"},
             stringify(ch[ns[i]], ch, ido, keys))]

\* serialize(): JSON.stringify throws a TypeError on a circular structure.
serialize(S) ==
  IF \E i \in 1..Len(S.roots) : Walk(S.roots[i], {}, S.children).cyc # NoNode
  THEN [out |-> "TypeError", text |-> Json(treeVersion, FALSE, <<>>)]
  ELSE [out |-> "ok",
        text |-> Json(treeVersion, TRUE,
                      stringify(S.roots, S.children, S.idOf, S.valueKeys))]

\* ------------------------------------------------------------------ clones
\* deepCopyNode(node): a new node { value: { ...node.value } } with the
\* copies of the children as its children array; no parent is assigned.
\* The new objects are built in D, the original is read in S.
RECURSIVE deepCopyNode(_, _, _), CopyChildren(_, _, _)
deepCopyNode(D, n, S) ==
  LET newNode == Fresh(D)
      made == [D EXCEPT !.created = @ \cup {newNode},
                        !.idOf = [@ EXCEPT ![newNode] = S.idOf[n]],
                        !.valueKeys = [@ EXCEPT ![newNode] = S.valueKeys[n]]]
      kids == CopyChildren(made, S.children[n], S)
  IN [D |-> [kids.D EXCEPT !.children = [@ EXCEPT ![newNode] = kids.nodes]],
      node |-> newNode]

CopyChildren(D, ns, S) ==
  IF ns = <<>> THEN [D |-> D, nodes |-> <<>>]
  ELSE LET first == deepCopyNode(D, Head(ns), S)
           rest == CopyChildren(first.D, Tail(ns), S)
       IN [D |-> rest.D, nodes |-> <<first.node>> \o rest.nodes]

\* cloneNode(node)
cloneNode(n, S) == deepCopyNode(NewForest, n, S)

\* cloneForest(): a new Treewise, removeAllRoots, then addRoot of the copy
\* of each root.
RECURSIVE CloneLoop(_, _, _)
CloneLoop(D, rs, S) ==
  IF rs = <<>> THEN D
  ELSE LET clonedRoot == deepCopyNode(D, Head(rs), S)
       IN CloneLoop(addRoot(clonedRoot.D, clonedRoot.node, 0), Tail(rs), S)

cloneForest(S) == CloneLoop(removeAllRoots(NewForest), S.roots, S)

\* ------------------------------------------------------- the flat format
\* One element of the flat array: { ...value, parentId }, parentId NoValue
\* for null.  `keys` are the value's other properties.
FlatRecord(i, pid, keys) == [id |-> i, parentId |-> pid, keys |-> keys]

\* serializeFlat(): one record per pre-order callback, in that order; the
\* parentId written last replaces a parentId the value has of its own.
\* The traversal never ends on a children cycle below a root.
serializeFlat(S) ==
  LET t == traverse(S.roots, "pre-order", S.children, NoLimit)
  IN [out |-> IF t.diverges THEN "hang" ELSE "ok",
      flat |-> [i \in 1..Len(t.visits) |->
                  LET n == t.visits[i].node
                  IN FlatRecord(S.idOf[n],
                                IF S.parent[n] # NoNode THEN S.idOf[S.parent[n]]
                                ELSE NoValue,
                                S.valueKeys[n] \ {"parentId"})]]

\* deserializeFlat, first pass: a node { value } per record, value being the
\* record without parentId, and nodeMap.set(item.id, node).
RECURSIVE CreateNodes(_, _, _)
CreateNodes(S, nodeMap, flat) ==
  IF flat = <<>> THEN [S |-> S, nodeMap |-> nodeMap]
  ELSE LET item == Head(flat)
           n == Fresh(S)
       IN CreateNodes([S EXCEPT !.created = @ \cup {n},
                                !.idOf = [@ EXCEPT ![n] = item.id],
                                !.valueKeys = [@ EXCEPT ![n] = item.keys \ {"parentId"}]],
                      [nodeMap EXCEPT ![item.id] = n], Tail(flat))

\* The second pass with parent.children.unshift(node).
RECURSIVE BuildRelationshipsUnshift(_, _, _)
BuildRelationshipsUnshift(S, nodeMap, flat) ==
  IF flat = <<>> \/ S.out # "ok" THEN S
  ELSE LET item == Head(flat)
           node == nodeMap[item.id]
           p == IF item.parentId = NoValue THEN NoNode ELSE nodeMap[item.parentId]
           linked == [S EXCEPT !.parent = [@ EXCEPT ![node] = p],
                               !.children = [@ EXCEPT ![p] = <<node>> \o @]]
           r == IndexNodeAndChildren(linked.nodeIndex, node, linked.children,
                                     linked.idOf, 1)
       IN IF item.parentId = NoValue
          THEN BuildRelationshipsUnshift(addRoot(S, node, 1), nodeMap, Tail(flat))
          ELSE IF p = NoNode
          THEN BuildRelationshipsUnshift(S, nodeMap, Tail(flat))
          ELSE BuildRelationshipsUnshift(
                 [linked EXCEPT !.nodeIndex = r.idx,
                                !.out = IF r.overflow THEN "RangeError" ELSE "ok"],
                 nodeMap, Tail(flat))

\* deserializeFlat, second pass: a record with parentId null becomes a
\* root; one whose parentId is in nodeMap is linked under that node and
\* indexed; any other is passed over.  Nodes taken from nodeMap have
\* different ids, so where the stack overflows on a cycle does not show in
\* the index.
RECURSIVE BuildRelationships(_, _, _)
BuildRelationships(S, nodeMap, flat) ==
  IF flat = <<>> \/ S.out # "ok" THEN S
  ELSE LET item == Head(flat)
           node == nodeMap[item.id]
           p == IF item.parentId = NoValue THEN NoNode ELSE nodeMap[item.parentId]
           linked == [S EXCEPT !.parent = [@ EXCEPT ![node] = p],
                               !.children = [@ EXCEPT ![p] = Append(@, node)]]
           r == IndexNodeAndChildren(linked.nodeIndex, node, linked.children,
                                     linked.idOf, 1)
       IN IF item.parentId = NoValue
          THEN BuildRelationships(addRoot(S, node, 1), nodeMap, Tail(flat))
          ELSE IF p = NoNode
          THEN BuildRelationships(S, nodeMap, Tail(flat))
          ELSE BuildRelationships(
                 [linked EXCEPT !.nodeIndex = r.idx,
                                !.out = IF r.overflow THEN "RangeError" ELSE "ok"],
                 nodeMap, Tail(flat))

\* deserializeFlat(flatData)
deserializeFlat(S, flat) ==
  LET cleared == removeAllRoots(S)
      made == CreateNodes(cleared, [i \in Ids |-> NoNode], flat)
  IN IF cleared.out # "ok" THEN cleared
     ELSE BuildRelationships(made.S, made.nodeMap, flat)

\* The promise a deserialize call returned.  `raced` notes that a call
\* changed the forest while the promise was pending.
Promise(text) == [text |-> text, state |-> "pending", raced |-> FALSE]

Raced(S) ==
  [i \in 1..Len(pending) |->
     IF /\ pending[i].state = "pending"
        /\ <<S.roots, S.children, S.parent, S.nodeIndex>>
             # <<roots, children, parent, nodeIndex>>
     THEN [pending[i] EXCEPT !.raced = TRUE]
     ELSE pending[i]]

\* ------------------------------------------------------ the usage contract
\* A call keeps the usage contract when its node arguments are nodes of the
\* forest, the ids it adds are not in the index, a node handed to addRoot is
\* not in the forest already, and moveNode is not asked to put a node under
\* itself.  Every other call counts as a misuse; one run makes at most
\* MaxMisuse of them.
InForest(n) == n \in Reachable

Detached(n) ==
  LET sub == Subtree(n, children)
  IN /\ sub \cap Reachable = {}
     /\ \A m \in sub : nodeIndex[idOf[m]] = NoNode
     /\ \A a, b \in sub : a # b => idOf[a] # idOf[b]
     /\ Walk(n, {}, children).cyc = NoNode

RECURSIVE NewIds(_, _)
NewIds(vals, taken) ==
  IF vals = <<>> THEN TRUE
  ELSE IF Head(vals) = NoValue THEN TRUE
  ELSE /\ Head(vals) \notin taken
       /\ NewIds(Tail(vals), taken \cup {Head(vals)})

Indexed == {i \in Ids : nodeIndex[i] # NoNode}

\* The values a caller passes for new nodes: absent, an id in use, or the
\* least id not in use.
RECURSIVE Canonical(_, _)
Canonical(vals, used) ==
  IF vals = <<>> THEN TRUE
  ELSE IF Head(vals) = NoValue THEN Canonical(Tail(vals), used)
  ELSE /\ (used # Ids => Head(vals) \in used \cup {LeastFree(used)})
       /\ Canonical(Tail(vals), used \cup {Head(vals)})

SeqsUpTo(S, k) == UNION {[1..m -> S] : m \in 0..k}

\* How many nodes addChildren would build: the values before the first
\* absent one.
RECURSIVE Leading(_)
Leading(vals) ==
  IF vals = <<>> \/ Head(vals) = NoValue THEN 0 ELSE 1 + Leading(Tail(vals))

\* The state after a call returns or throws.
Becomes(S, op, kept) ==
  /\ misuses + (IF kept THEN 0 ELSE 1) <= MaxMisuse
  /\ TotalSlots(S.roots, S.children) <= MaxSlots
  /\ created' = S.created
  /\ idOf' = S.idOf
  /\ parent' = S.parent
  /\ children' = S.children
  /\ roots' = S.roots
  /\ nodeIndex' = S.nodeIndex
  /\ emitted' = S.emitted
  /\ heard' = S.heard
  /\ views' = S.views
  /\ lastOp' = Call(op, S.out)
  /\ misuses' = misuses + (IF kept THEN 0 ELSE 1)
  /\ pending' = Raced(S)
  /\ valueKeys' = S.valueKeys
  /\ UNCHANGED eventHandlers

Init ==
  /\ created = {}
  /\ idOf = [n \in Nodes |-> NoValue]
  /\ parent = [n \in Nodes |-> NoNode]
  /\ children = [n \in Nodes |-> <<>>]
  /\ roots = <<>>
  /\ nodeIndex = [i \in Ids |-> NoNode]
  /\ emitted = <<>>
  /\ lastOp = Call("idle", "ok")
  /\ misuses = 0
  /\ eventHandlers = [k \in EventKinds |-> <<>>]
  /\ heard = <<>>
  /\ views = <<>>
  /\ pending = <<>>
  /\ valueKeys = [n \in Nodes |-> {}]

\* addRoot(node) with a node object the caller has just built: { value }.
AddRootFresh ==
  /\ Running
  /\ created # Nodes
  /\ \E v \in Ids :
       /\ Canonical(<<v>>, UsedIds)
       /\ LET n == Fresh(Here)
              S == [Here EXCEPT !.created = @ \cup {n}, !.idOf = [@ EXCEPT ![n] = v]]
          IN Becomes(addRoot(S, n, 0), "addRoot", nodeIndex[v] = NoNode)

\* addRoot(node) with a node object that exists already: a node of the
\* forest, or one removed from it earlier.
AddRootExisting ==
  /\ Running
  /\ \E n \in created : \E cut \in Cuts(n, children) :
       Becomes(addRoot(Here, n, cut), "addRoot", Detached(n))

RemoveAllRoots ==
  /\ Running
  /\ Becomes(removeAllRoots(Here), "removeAllRoots", TRUE)

AddNodeAsChild ==
  /\ Running
  /\ \E p \in created, v \in Ids \cup {NoValue} :
       /\ Canonical(<<v>>, UsedIds)
       /\ v # NoValue => created # Nodes
       /\ Becomes(addNodeAsChild(Here, p, v), "addNodeAsChild",
                  InForest(p) /\ NewIds(<<v>>, Indexed))

AddChildren ==
  /\ Running
  /\ \E p \in created, vals \in SeqsUpTo(Ids \cup {NoValue}, MaxBatch) :
       /\ Canonical(vals, UsedIds)
       /\ Cardinality(created) + Leading(vals) <= MaxNodes
       /\ Becomes(addChildren(Here, p, vals), "addChildren",
                  InForest(p) /\ NewIds(vals, Indexed))

RemoveNode ==
  /\ Running
  /\ \E t \in created :
       Becomes(removeNode(Here, t), "removeNode", InForest(t))

RemoveChildren ==
  /\ Running
  /\ \E p \in created, ns \in SeqsUpTo(created, MaxBatch) :
       Becomes(removeChildren(Here, p, ns), "removeChildren",
               InForest(p) /\ \A i \in 1..Len(ns) : InForest(ns[i]))

MoveNode ==
  /\ Running
  /\ \E n \in created, np \in created :
       Becomes(moveNode(Here, n, np), "moveNode",
               InForest(n) /\ InForest(np) /\ n # np)

\* The call returns to its caller (normally or by throwing), which goes on
\* to its next call.  A call that hangs never returns.
Return ==
  /\ lastOp.op # "idle"
  /\ lastOp.out # "hang"
  /\ lastOp' = Call("idle", "ok")
  /\ emitted' = <<>>
  /\ heard' = <<>>
  /\ views' = <<>>
  /\ pending' = SelectSeq(pending, LAMBDA q : q.state = "pending")
  /\ UNCHANGED <<created, idOf, parent, children, roots, nodeIndex, misuses,
                 eventHandlers, valueKeys>>

Next ==
  \/ Return
  \/ AddRootFresh
  \/ AddRootExisting
  \/ RemoveAllRoots
  \/ AddNodeAsChild
  \/ AddChildren
  \/ RemoveNode
  \/ RemoveChildren
  \/ MoveNode

Spec == Init /\ [][Next]_vars

\* ------------------------------------------------------- event handlers
Registrations(eh) == SumLen(eh, EventKinds)

\* on(event, handler) with a handler function the caller has.
On ==
  /\ Running
  /\ Registrations(eventHandlers) < MaxRegistrations
  /\ \E event \in EventKinds, h \in Handlers :
       eventHandlers' = on(eventHandlers, event, h)
  /\ lastOp' = Call("on", "ok")
  /\ UNCHANGED <<created, idOf, parent, children, roots, nodeIndex, emitted,
                 misuses, heard, views, pending, valueKeys>>

\* off(event, handler), registered or not.
Off ==
  /\ Running
  /\ \E event \in EventKinds, h \in Handlers :
       eventHandlers' = off(eventHandlers, event, h)
  /\ lastOp' = Call("off", "ok")
  /\ UNCHANGED <<created, idOf, parent, children, roots, nodeIndex, emitted,
                 misuses, heard, views, pending, valueKeys>>

\* The call made keeps the usage contract.
InContract(A) == A /\ misuses' = misuses

\* The forest used within its contract by a caller that subscribes and
\* unsubscribes handlers between its calls.
NextEvents ==
  \/ Return
  \/ On
  \/ Off
  \/ InContract(AddRootFresh)
  \/ InContract(AddNodeAsChild)
  \/ InContract(AddChildren)
  \/ InContract(RemoveNode)
  \/ InContract(RemoveChildren)
  \/ InContract(MoveNode)

SpecEvents == Init /\ [][NextEvents]_vars

\* ---------------------------------------------------- pending deserialize
\* deserialize(dataPromise) is called: the async function runs up to its
\* await and hands back a promise.
Deserialize ==
  /\ Running
  /\ Len(pending) < MaxPending
  /\ \E text \in Texts : pending' = Append(pending, Promise(text))
  /\ lastOp' = Call("deserialize", "pending")
  /\ UNCHANGED <<created, idOf, parent, children, roots, nodeIndex, emitted,
                 misuses, eventHandlers, heard, views, valueKeys>>

\* The data promise has resolved and the rest of deserialize runs, between
\* two calls of the caller, up to its return or throw.
Settle ==
  /\ Running
  /\ \E i \in 1..Len(pending) :
       /\ pending[i].state = "pending"
       /\ Cardinality(created) + Size(pending[i].text.roots) <= MaxNodes
       /\ LET S == deserialize(Here, pending[i].text)
          IN /\ created' = S.created
             /\ idOf' = S.idOf
             /\ parent' = S.parent
             /\ children' = S.children
             /\ roots' = S.roots
             /\ nodeIndex' = S.nodeIndex
             /\ emitted' = S.emitted
             /\ heard' = S.heard
             /\ views' = S.views
             /\ valueKeys' = S.valueKeys
             /\ lastOp' = Call("deserialize", S.out)
             /\ pending' = [pending EXCEPT ![i].state =
                              IF S.out = "ok" THEN "fulfilled" ELSE "rejected"]
  /\ UNCHANGED <<misuses, eventHandlers>>

\* No object without value has come into the forest from a text.
AllValued == \A n \in created : idOf[n] # NoValue

\* The forest used within its contract by a caller that also loads it from
\* texts that arrive later.  After a text has left an object without value
\* in the forest the caller goes on with deserialize calls only.
NextLoad ==
  \/ Return
  \/ Deserialize
  \/ Settle
  \/ AllValued /\ InContract(AddRootFresh)
  \/ AllValued /\ InContract(AddNodeAsChild)
  \/ AllValued /\ InContract(AddChildren)
  \/ AllValued /\ InContract(RemoveNode)
  \/ AllValued /\ InContract(RemoveChildren)
  \/ AllValued /\ InContract(MoveNode)

SpecLoad == Init /\ [][NextLoad]_vars

\* ------------------------------------------------- forests built by calls
\* moveNode(n, n) for a node of the forest: the call returns normally.
MoveNodeOntoItself ==
  /\ Running
  /\ \E n \in Reachable : Becomes(moveNode(Here, n, n), "moveNode", TRUE)

\* The forests built by addRoot of new nodes, addNodeAsChild and
\* addChildren with ids not in the index, and removeNode, removeChildren
\* and moveNode between nodes of the forest.
NextBuilt ==
  \/ Return
  \/ InContract(AddRootFresh)
  \/ InContract(AddNodeAsChild)
  \/ InContract(AddChildren)
  \/ InContract(RemoveNode)
  \/ InContract(RemoveChildren)
  \/ InContract(MoveNode)
  \/ MoveNodeOntoItself

SpecBuilt == Init /\ [][NextBuilt]_vars

\* The calls of the usage contract alone, addRoot of a node that was taken
\* out of the forest earlier among them.
NextContract ==
  \/ Return
  \/ InContract(AddRootFresh)
  \/ InContract(AddRootExisting)
  \/ InContract(AddNodeAsChild)
  \/ InContract(AddChildren)
  \/ InContract(RemoveNode)
  \/ InContract(RemoveChildren)
  \/ InContract(MoveNode)

SpecContract == Init /\ [][NextContract]_vars

\* ------------------------------------------------------------- the codecs
\* addRoot(node) with a new node whose value has, besides its id,
\* properties named like fields of the formats.
AddRootKeyed ==
  /\ Running
  /\ created # Nodes
  /\ \E v \in Ids, keys \in SUBSET KeyNames \ {{}} :
       /\ Canonical(<<v>>, UsedIds)
       /\ LET n == Fresh(Here)
              S == [Here EXCEPT !.created = @ \cup {n},
                                !.idOf = [@ EXCEPT ![n] = v],
                                !.valueKeys = [@ EXCEPT ![n] = keys]]
          IN Becomes(addRoot(S, n, 0), "addRoot", nodeIndex[v] = NoNode)

\* The flat arrays a caller hands to deserializeFlat: up to MaxRecords
\* records with ids of Ids, each with parentId null or an id of Ids, in the
\* list or not.
FlatInputs ==
  SeqsUpTo({FlatRecord(i, pid, {}) : i \in Ids, pid \in Ids \cup {NoValue}},
           MaxRecords)

DeserializeFlat ==
  /\ Running
  /\ \E flat \in FlatInputs :
       /\ Cardinality(created) + Len(flat) <= MaxNodes
       /\ Becomes(deserializeFlat(Here, flat), "deserializeFlat", TRUE)

\* The forest used within its contract by a caller that also loads it from
\* flat arrays and whose values may have properties of any name.
NextCodec ==
  \/ Return
  \/ DeserializeFlat
  \/ InContract(AddRootKeyed)
  \/ InContract(AddRootFresh)
  \/ InContract(AddNodeAsChild)
  \/ InContract(RemoveNode)
  \/ InContract(MoveNode)

SpecCodec == Init /\ [][NextCodec]_vars

\* ================================================================ claims
\* Vocabulary shared by the claims.
Unchanged(S) ==
  /\ S.created = created
  /\ S.idOf = idOf
  /\ S.parent = parent
  /\ S.children = children
  /\ S.roots = roots
  /\ S.nodeIndex = nodeIndex

\* The step just taken is the call `op` with the result S.
Did(op, S) ==
  /\ lastOp.op = "idle"
  /\ lastOp' = Call(op, S.out)
  /\ created' = S.created
  /\ idOf' = S.idOf
  /\ parent' = S.parent
  /\ children' = S.children
  /\ roots' = S.roots
  /\ nodeIndex' = S.nodeIndex
  /\ emitted' = S.emitted

\* Nodes met by following parent links upward from n, n itself left out
\* unless the links lead back to it.
RECURSIVE Up(_, _, _)
Up(cur, seen, par) ==
  IF cur = NoNode \/ cur \in seen THEN seen ELSE Up(par[cur], seen \cup {cur}, par)

AncestorsOf(n) == Up(parent[n], {}, parent)

\* Nodes met by following children links downward from n, n itself left
\* out unless the links lead back to it.
DescendantsOf(n) == Closure(Range(children[n]), children)

\* Every children entry is matched by the child's parent link.
LinksAgree == \A m \in created : \A k \in Range(children[m]) : parent[k] = m

\* Owner slots that hold n.
RECURSIVE SumOcc(_, _, _)
SumOcc(ch, S, n) ==
  IF S = {} THEN 0
  ELSE LET m == CHOOSE k \in S : TRUE
       IN Occurrences(ch[m], n) + SumOcc(ch, S \ {m}, n)

Holders(rs, ch, n) == Occurrences(rs, n) + SumOcc(ch, Nodes, n)

\* The recursive depth-first walk (the recursion of indexNodeAndChildren,
\* with the depth of each call): the node, then each child's walk in
\* children order.  Cut off below depth MaxNodes, where a walk only goes on
\* a children cycle.
RECURSIVE DepthFirst(_, _, _), DepthFirstAll(_, _, _)
DepthFirst(n, d, ch) ==
  IF d >= MaxNodes THEN <<>>
  ELSE <<[node |-> n, depth |-> d]>> \o DepthFirstAll(ch[n], d + 1, ch)

DepthFirstAll(ns, d, ch) ==
  IF ns = <<>> THEN <<>>
  ELSE DepthFirst(Head(ns), d, ch) \o DepthFirstAll(Tail(ns), d, ch)

\* The same walk with every node after its children.
RECURSIVE DepthFirstPost(_, _, _), DepthFirstPostAll(_, _, _)
DepthFirstPost(n, d, ch) ==
  IF d >= MaxNodes THEN <<>>
  ELSE DepthFirstPostAll(ch[n], d + 1, ch) \o <<[node |-> n, depth |-> d]>>

DepthFirstPostAll(ns, d, ch) ==
  IF ns = <<>> THEN <<>>
  ELSE DepthFirstPost(Head(ns), d, ch) \o DepthFirstPostAll(Tail(ns), d, ch)

\* How often a traversal called back with node n.
Visits(t, n) == Cardinality({i \in 1..Len(t.visits) : t.visits[i].node = n})

\* Nodes reachable from roots at depth d or less.
RECURSIVE Within(_, _, _)
Within(S, d, ch) ==
  IF d = 0 THEN S ELSE Within(S \cup UNION {Range(ch[n]) : n \in S}, d - 1, ch)

\* A reachable node's distance from its root.
Level(n) ==
  CHOOSE d \in 0..MaxNodes :
    /\ n \in Within(Range(roots), d, children)
    /\ \A e \in 0..(d - 1) : n \notin Within(Range(roots), e, children)

\* The values of maxDepth that tell forests of MaxNodes nodes apart.
Depths == 0..(MaxNodes - 1)

\* Every reachable node has one holder: the forest of the data model.
EachHeldOnce == \A n \in Reachable : Holders(roots, children, n) = 1

\* C1 (stated as claimed): after every operation the id index holds exactly
\* the nodes reachable from roots: each reachable node is indexed under its
\* own id, and every indexed node is reachable.
C1_IndexIsReachableSet ==
  /\ \A n \in Reachable : nodeIndex[idOf[n]] = n
  /\ \A i \in Ids : nodeIndex[i] # NoNode => nodeIndex[i] \in Reachable

\* C2 (stated as claimed): after every public operation countNodes() equals
\* the number of nodes a full traverse() visits.
C2_CountEqualsTraversal ==
  LET t == traverse(roots, "pre-order", children, NoLimit)
  IN /\ ~t.diverges
     /\ countNodes(nodeIndex) = Len(t.visits)

\* C3 (stated as claimed): after every public operation no node is its own
\* ancestor, neither along parent links nor along children links.
C3_NoNodeIsItsOwnAncestor ==
  \A n \in created : n \notin AncestorsOf(n) /\ n \notin DescendantsOf(n)

\* C4 (stated as claimed): after every public operation each reachable node
\* is held exactly once: as a root without a parent, or once in its parent's
\* children and nowhere else.
C4_ExactlyOneOwner ==
  \A n \in Reachable :
    /\ Holders(roots, children, n) = 1
    /\ n \in Range(roots) => parent[n] = NoNode
    /\ n \notin Range(roots) =>
         parent[n] # NoNode /\ Occurrences(children[parent[n]], n) = 1

\* C5: moveNode(a, b) with b a proper descendant of a (a lies on b's parent
\* chain, which is where every descendant's chain runs when children and
\* parent links agree) throws the circular-reference error, emits nothing
\* and leaves roots, children, parents and the index as they were.
C5_MoveUnderDescendantThrows ==
  \A a, b \in created :
    (a # b /\ (a \in AncestorsOf(b) \/ (LinksAgree /\ b \in DescendantsOf(a)))) =>
      LET S == moveNode(Here, a, b)
      IN S.out = "ErrCircularReference" /\ S.emitted = <<>> /\ Unchanged(S)

\* A moveNode under a grandchild has just been refused.
C5_Witness ==
  /\ lastOp = Call("moveNode", "ErrCircularReference")
  /\ \E a, b \in Reachable :
       /\ b \in DescendantsOf(a)
       /\ parent[b] # a
       /\ moveNode(Here, a, b).out = "ErrCircularReference"

\* C6 (stated as claimed): moveNode(n, n) fails with the circular-reference
\* error and leaves the tree unmodified.
C6_MoveUnderItselfThrows ==
  [][\A n \in created :
       Did("moveNode", moveNode(Here, n, n)) =>
         /\ lastOp'.out = "ErrCircularReference"
         /\ UNCHANGED <<parent, children, roots, nodeIndex>>]_vars

\* C7 (stated as claimed): a moveNode(node, newParent) that does not throw,
\* both nodes being in the forest, takes node out of its former owner, makes
\* it the last child of newParent with parent = newParent, emits onNodeMoved
\* once with node, and leaves the reachable set and countNodes() unchanged.
C7_MoveReparents ==
  [][\A n, np \in Reachable :
       (Did("moveNode", moveNode(Here, n, np)) /\ lastOp'.out = "ok") =>
         /\ n \notin Range(roots')
         /\ (parent[n] # NoNode /\ parent[n] # np) => n \notin Range(children'[parent[n]])
         /\ children'[np] # <<>> /\ children'[np][Len(children'[np])] = n
         /\ Occurrences(children'[np], n) = 1
         /\ parent'[n] = np
         /\ emitted' = <<Event("onNodeMoved", n)>>
         /\ ReachableIn(roots', children') = Reachable
         /\ countNodes(nodeIndex') = countNodes(nodeIndex)]_vars

\* C8 (stated as claimed): after removeNode(n) succeeds for a node n of the
\* forest, n is gone from its owner's sequence, no node of n's subtree is
\* reachable or returned by findById, and every other node keeps its
\* position, order and index entry.
C8_RemoveTakesSubtreeOnly ==
  [][\A n \in Reachable :
       LET sub == Subtree(n, children)
           owner == IF n \in Range(roots) THEN NoNode ELSE parent[n]
       IN (Did("removeNode", removeNode(Here, n)) /\ lastOp'.out = "ok") =>
            /\ n \notin Range(roots')
            /\ owner # NoNode => n \notin Range(children'[owner])
            /\ sub \cap ReachableIn(roots', children') = {}
            /\ \A i \in Ids : findById(nodeIndex', i) \notin sub
            /\ \A m \in Reachable \ sub :
                 /\ findById(nodeIndex, idOf[m]) = m => findById(nodeIndex', idOf[m]) = m
                 /\ parent'[m] = parent[m]
                 /\ m # owner => children'[m] = children[m]
            /\ owner # NoNode =>
                 children'[owner] = SelectSeq(children[owner], LAMBDA k : k # n)
            /\ roots' = SelectSeq(roots, LAMBDA k : k # n)]_vars

\* C9: removeNode(n) throws when n is neither in roots nor in its recorded
\* parent's children (a node without a parent included); roots, children
\* and the index are then unchanged and onNodeRemoved is not emitted.
C9_RemoveOfUnownedNodeThrows ==
  \A n \in created :
    (/\ n \notin Range(roots)
     /\ parent[n] = NoNode \/ n \notin Range(children[parent[n]])) =>
      LET S == removeNode(Here, n)
      IN S.out = "ErrNotFound" /\ S.emitted = <<>> /\ Unchanged(S)

\* A removeNode of a node nobody holds has just thrown, in a forest that
\* still has nodes.
C9_Witness ==
  /\ lastOp = Call("removeNode", "ErrNotFound")
  /\ roots # <<>>
  /\ \E n \in created \ Reachable : removeNode(Here, n).out = "ErrNotFound"

\* C10 (stated as claimed): removeChildren(parent, nodes) fails when a node
\* of the list has another recorded parent, and then no node of the list
\* has been removed or un-indexed and no onNodeRemoved has been emitted.
C10_RemoveChildrenAllOrNothing ==
  [][\A p \in created : \A ns \in SeqsUpTo(created, MaxBatch) :
       (/\ \E i \in 1..Len(ns) : parent[ns[i]] # p
        /\ Did("removeChildren", removeChildren(Here, p, ns))) =>
         /\ lastOp'.out = "ErrNotChildOfParent"
         /\ emitted' = <<>>
         /\ UNCHANGED <<parent, children, roots, nodeIndex>>]_vars

\* C11: traverse(cb, 'pre-order') without maxDepth calls cb in the order of
\* the recursive depth-first walk over roots (roots in roots order, a node
\* before its children, siblings in children order) whenever it returns;
\* in a forest, where every reachable node has one holder, it returns, has
\* called cb exactly once for every reachable node and for no other, and
\* has passed each node's distance from its root as depth.
C11_PreOrderWalk ==
  LET t == traverse(roots, "pre-order", children, NoLimit)
  IN /\ ~t.diverges => t.visits = DepthFirstAll(roots, 0, children)
     /\ EachHeldOnce =>
          /\ ~t.diverges
          /\ \A n \in Reachable : Visits(t, n) = 1
          /\ \A i \in 1..Len(t.visits) :
               /\ t.visits[i].node \in Reachable
               /\ t.visits[i].depth = Level(t.visits[i].node)

\* The forest the caller traverses has a root with two children.
C11_Witness ==
  /\ EachHeldOnce
  /\ \E n \in Range(roots) : Len(children[n]) = 2
  /\ Len(traverse(roots, "pre-order", children, NoLimit).visits) = 3

\* C12: traverse(cb, 'post-order') calls cb in the order of the recursive
\* walk that takes every node after its children (sibling subtrees in
\* children order, one root's whole tree after the other in roots order)
\* whenever it returns; in a forest it returns, has called cb exactly once
\* for every reachable node, and every node's call comes after the calls of
\* all of its descendants.
C12_PostOrderWalk ==
  LET t == traverse(roots, "post-order", children, NoLimit)
      At(n) == CHOOSE i \in 1..Len(t.visits) : t.visits[i].node = n
  IN /\ ~t.diverges => t.visits = DepthFirstPostAll(roots, 0, children)
     /\ EachHeldOnce =>
          /\ ~t.diverges
          /\ \A n \in Reachable : Visits(t, n) = 1
          /\ \A i \in 1..Len(t.visits) : t.visits[i].node \in Reachable
          /\ \A n \in Reachable : \A k \in DescendantsOf(n) : At(k) < At(n)
          /\ \A i, j \in 1..Len(roots) : \A a, b \in Reachable :
               (i < j /\ a \in Subtree(roots[i], children)
                      /\ b \in Subtree(roots[j], children)) => At(a) < At(b)

\* The forest the caller traverses has two roots, the first with a child.
C12_Witness ==
  /\ EachHeldOnce
  /\ Len(roots) = 2
  /\ children[roots[1]] # <<>>
  /\ Len(traverse(roots, "post-order", children, NoLimit).visits) = 3

\* C13 (stated as claimed): in a forest, traverseBreadthFirst calls back in
\* the order of one FIFO queue that starts with all roots in roots order:
\* every root comes before any node that is not a root, and the depths
\* passed to the callback never decrease, several roots with children
\* included.
C13_BreadthFirstOneQueue ==
  LET t == traverseBreadthFirst(roots, children, NoLimit)
      q == traverseBreadthFirstOneQueue(roots, children, NoLimit)
  IN EachHeldOnce =>
       /\ ~t.diverges
       /\ t.visits = q.visits
       /\ \A i, j \in 1..Len(t.visits) :
            i < j =>
              /\ t.visits[i].depth <= t.visits[j].depth
              /\ t.visits[j].node \in Range(roots) => t.visits[i].node \in Range(roots)

\* C14: in a forest, traverse (pre-order and post-order) and
\* traverseBreadthFirst called with maxDepth = d call back exactly the
\* reachable nodes at depth d or less, each once: a node at depth d is
\* called back, its children are not.
C14_MaxDepthIsInclusive ==
  \A d \in Depths :
    LET near == Within(Range(roots), d, children)
        Bounded(t) ==
          /\ ~t.diverges
          /\ \A n \in near : Visits(t, n) = 1
          /\ \A i \in 1..Len(t.visits) :
               /\ t.visits[i].node \in near
               /\ t.visits[i].depth = Level(t.visits[i].node)
               /\ t.visits[i].depth <= d
    IN EachHeldOnce =>
         /\ Bounded(traverse(roots, "pre-order", children, d))
         /\ Bounded(traverse(roots, "post-order", children, d))
         /\ Bounded(traverseBreadthFirst(roots, children, d))

\* The forest is a chain of three nodes, so that maxDepth = 1 calls back a
\* node whose child it leaves out.
C14_Witness ==
  /\ EachHeldOnce
  /\ \E n \in Reachable : Level(n) = 2
  /\ Len(traverseBreadthFirst(roots, children, 1).visits) = 2
  /\ Len(traverse(roots, "post-order", children, 1).visits) = 2

\* C15: addNodeAsChild(parent, value) emits onNodeAdded exactly once, with
\* the new node; when the event is delivered the node is already the last
\* child of parent and findById(value.id) returns it; addRoot emits nothing.
C15_AddedEventAfterLinkAndIndex ==
  /\ \A p \in created : \A v \in Ids :
       created # Nodes =>
         LET S == addNodeAsChild(Here, p, v)
             n == Fresh(Here)
         IN /\ S.out = "ok"
            /\ S.emitted = <<Event("onNodeAdded", n)>>
            /\ Len(S.views) = 1
            /\ S.views[1].children[p] # <<>>
            /\ S.views[1].children[p][Len(S.views[1].children[p])] = n
            /\ S.views[1].parent[n] = p
            /\ findById(S.views[1].nodeIndex, v) = n
  /\ \A n \in created : \A cut \in Cuts(n, children) :
       addRoot(Here, n, cut).emitted = <<>>
  /\ lastOp.op = "addRoot" => emitted = <<>>

\* An addNodeAsChild under a parent that has a child already has just
\* returned, its one event delivered.
C15_Witness ==
  /\ lastOp = Call("addNodeAsChild", "ok")
  /\ Len(emitted) = 1 /\ Len(views) = 1
  /\ emitted[1].event = "onNodeAdded"
  /\ Len(children[parent[emitted[1].node]]) = 2
  /\ views[1].children = children
  /\ findById(views[1].nodeIndex, idOf[emitted[1].node]) = emitted[1].node

RECURSIVE Deliveries(_, _)
Deliveries(events, eh) ==
  IF events = <<>> THEN <<>>
  ELSE LET e == Head(events)
           handlers == eh[e.event]
       IN [i \in 1..Len(handlers) |-> Heard(handlers[i], e.event, e.node)]
            \o Deliveries(Tail(events), eh)

\* C17: every event a mutating call emits is delivered inside that call to
\* every handler registered for its kind at that time, once per
\* registration and in registration order, and to no handler registered
\* for another kind only; outside a mutating call nothing is delivered.
C17_DeliveredToRegisteredInOrder ==
  /\ heard = Deliveries(emitted, eventHandlers)
  /\ lastOp.op \in {"idle", "on", "off"} => heard = <<>>
  /\ \A i \in 1..Len(heard) :
       /\ heard[i].handler \in Range(eventHandlers[heard[i].event])
       /\ \E j \in 1..Len(emitted) :
            emitted[j] = Event(heard[i].event, heard[i].node)

\* A call has just delivered one event to two different handlers of its
\* kind.
C17_Witness ==
  /\ Len(emitted) = 1
  /\ Len(heard) = 2
  /\ heard[1].handler # heard[2].handler
  /\ eventHandlers[emitted[1].event] = <<heard[1].handler, heard[2].handler>>

\* C18 (stated as claimed): after off(event, h) the handler h is not in the
\* list of that kind, so that no later event of the kind calls it; the
\* other handlers keep their order; off with a handler that is not
\* registered changes nothing.
C18_OffSilencesHandler ==
  [][\A event \in EventKinds : \A h \in Handlers :
       (/\ lastOp.op = "idle"
        /\ lastOp' = Call("off", "ok")
        /\ eventHandlers' = off(eventHandlers, event, h)) =>
         /\ h \notin Range(eventHandlers'[event])
         /\ SelectSeq(eventHandlers'[event], LAMBDA g : g # h)
              = SelectSeq(eventHandlers[event], LAMBDA g : g # h)
         /\ \A other \in EventKinds \ {event} :
              eventHandlers'[other] = eventHandlers[other]
         /\ h \notin Range(eventHandlers[event]) => eventHandlers' = eventHandlers]_vars

\* The forest below the nodes ns, read back as a text's roots array.
RECURSIVE Shapes(_, _, _, _)
Shapes(ns, ch, ido, keys) ==
  [i \in 1..Len(ns) |->
     Written(ido[ns[i]], keys[ns[i]], Shapes(ch[ns[i]], ch, ido, keys))]

\* Every node of a roots array has a value.
RECURSIVE Valued(_)
Valued(trees) ==
  \A i \in 1..Len(trees) : trees[i].id # NoValue /\ Valued(trees[i].children)

\* A text deserialize accepts.
Valid(text) ==
  /\ text.kind = "json" /\ text.version = treeVersion /\ text.isArray
  /\ Valued(text.roots)

\* C19: the deserialize call itself changes nothing, and no step but a
\* call of the caller or the settling of a pending deserialize changes the
\* forest, so every call made while the text is pending works on the old
\* forest; when the promise resolves with a valid text, one step replaces
\* roots, parent links and the index, and the forest is then exactly the
\* text's forest, built of new nodes, whatever was done to the old forest
\* in between.
C19_DeserializeAppliesAtOnce ==
  [][/\ lastOp' = Call("deserialize", "pending") =>
          UNCHANGED <<created, idOf, parent, children, roots, nodeIndex>>
     /\ <<parent, children, roots, nodeIndex>>' # <<parent, children, roots, nodeIndex>> =>
          /\ lastOp'.op \notin {"idle", "on", "off"}
          /\ lastOp'.op = "deserialize" => lastOp'.out # "pending"
     /\ \A i \in 1..Len(pending) :
          (/\ pending[i].state = "pending"
           /\ pending'[i].state # "pending"
           /\ Valid(pending[i].text)) =>
            LET now == ReachableIn(roots', children')
            IN /\ lastOp' = Call("deserialize", "ok")
               /\ pending'[i].state = "fulfilled"
               /\ Shapes(roots', children', idOf', valueKeys') = pending[i].text.roots
               /\ now \cap created = {}
               /\ \A r \in Range(roots') : parent'[r] = NoNode
               /\ \A n \in now : \A k \in Range(children'[n]) : parent'[k] = n
               /\ \A id \in Ids :
                    IF \E n \in now : idOf'[n] = id
                    THEN nodeIndex'[id] \in now /\ idOf'[nodeIndex'[id]] = id
                    ELSE nodeIndex'[id] = NoNode]_vars

\* A deserialize of a two-node text has just gone through, after the caller
\* changed the forest while the text was pending, and nodes of the old
\* forest are left behind.
C19_Witness ==
  /\ lastOp = Call("deserialize", "ok")
  /\ \E i \in 1..Len(pending) :
       /\ pending[i].state = "fulfilled"
       /\ pending[i].raced
       /\ Size(pending[i].text.roots) = 2
       /\ Shapes(roots, children, idOf, valueKeys) = pending[i].text.roots
  /\ created \ Reachable # {}

\* C20: whatever the forest, deserialize of a text whose version is not the
\* forest's format version rejects with the version-mismatch error, with or
\* without a roots array in the text; of a text with the right version and
\* no roots array, with the invalid-format error; both leave roots, the
\* index and the nodes as they were.
C20_RejectsVersionThenFormat ==
  \A text \in Texts :
    LET S == deserialize(Here, text)
    IN /\ (text.kind = "json" /\ text.version # treeVersion) =>
            S.out = "ErrVersionMismatch" /\ Unchanged(S) /\ S.emitted = <<>>
       /\ (text.kind = "json" /\ text.version = treeVersion /\ ~text.isArray) =>
            S.out = "ErrInvalidFormat" /\ Unchanged(S) /\ S.emitted = <<>>

\* A deserialize of a text with another version and no roots array has
\* just been rejected for its version, in a forest that has nodes.
C20_Witness ==
  /\ lastOp = Call("deserialize", "ErrVersionMismatch")
  /\ roots # <<>>
  /\ \E i \in 1..Len(pending) :
       /\ pending[i].state = "rejected"
       /\ pending[i].text = Json(otherVersion, FALSE, <<>>)

\* What findById(i) gives in forest S, as far as a text can tell: whether
\* there is a node, its value's other properties and its parent's id.
Entry(S, i) ==
  LET n == findById(S.nodeIndex, i)
  IN IF n = NoNode THEN [found |-> FALSE, keys |-> {}, parentId |-> NoValue]
     ELSE [found |-> TRUE, keys |-> S.valueKeys[n],
           parentId |-> IF S.parent[n] = NoNode THEN NoValue
                        ELSE S.idOf[S.parent[n]]]

\* The forest of the data model: every reachable node has one holder and
\* its parent link names it, ids are not shared, and the index holds the
\* reachable nodes.
WellFormed ==
  /\ EachHeldOnce
  /\ \A n \in Reachable :
       /\ \A k \in Range(children[n]) : parent[k] = n
       /\ \A m \in Reachable : idOf[m] = idOf[n] => m = n
  /\ \A i \in 1..Len(roots) : parent[roots[i]] = NoNode
  /\ C1_IndexIsReachableSet

\* C21 (stated as claimed, for the forests of the data model): the text of
\* serialize(), deserialized into a new forest, gives the same countNodes(),
\* the same roots and children in the same order, and for every id the same
\* value and the same parent id.
C21_RoundTripKeepsForest ==
  LET w == serialize(Here)
  IN WellFormed =>
       LET L == deserialize(NewForest, w.text)
       IN /\ L.out = "ok"
          /\ countNodes(L.nodeIndex) = countNodes(nodeIndex)
          /\ Shapes(L.roots, L.children, L.idOf, L.valueKeys)
               = Shapes(roots, children, idOf, valueKeys)
          /\ \A i \in Ids : Entry(L, i) = Entry(Here, i)

\* serializeFlat(), deserializeFlat() of its result into a new forest, and
\* serializeFlat() of that forest.
FlatRoundTrip ==
  LET first == serializeFlat(Here)
      L == deserializeFlat(NewForest, first.flat)
  IN [first |-> first, out |-> L.out, second |-> serializeFlat(L)]

\* C22: for a forest of the data model, serializeFlat() followed by
\* deserializeFlat() on a new forest and serializeFlat() again returns
\* normally at every step and yields a record list identical to the first.
C22_FlatRoundTripIsIdentical ==
  WellFormed =>
    /\ FlatRoundTrip.first.out = "ok"
    /\ FlatRoundTrip.out = "ok"
    /\ FlatRoundTrip.second = FlatRoundTrip.first

\* C22 witness: a root with two children and a value property named
\* parentId, whose three records come back in the same order.
C22_Witness ==
  /\ WellFormed
  /\ Len(roots) = 1
  /\ Len(children[roots[1]]) = 2
  /\ "parentId" \in valueKeys[roots[1]]
  /\ Len(FlatRoundTrip.first.flat) = 3
  /\ FlatRoundTrip.second.flat = FlatRoundTrip.first.flat

\* The records of a flat array have different ids and no record is, by
\* parentId, above itself.
Plain(flat) ==
  LET above == [i \in Ids |->
                  IF \E k \in 1..Len(flat) : flat[k].id = i
                  THEN flat[CHOOSE k \in 1..Len(flat) : flat[k].id = i].parentId
                  ELSE NoValue]
  IN /\ \A j, k \in 1..Len(flat) : flat[j].id = flat[k].id => j = k
     /\ \A i \in Ids : isAncestorOf(i, i, above) # "yes"

\* Record k of a flat array names a parent that no record of the array is.
Unresolved(flat, k) ==
  /\ flat[k].parentId # NoValue
  /\ \A j \in 1..Len(flat) : flat[j].id # flat[k].parentId

\* C23 (stated as claimed): after deserializeFlat on any list of records the
\* index holds exactly the nodes reachable from roots; a record with an
\* unresolved parentId is neither reachable nor indexed, and the call does
\* not throw for it.
C23_FlatLoadIndexesReachable ==
  \A flat \in FlatInputs :
    (Running /\ Plain(flat) /\ Cardinality(created) + Len(flat) <= MaxNodes
       /\ removeAllRoots(Here).out = "ok") =>
      LET S == deserializeFlat(Here, flat)
          within == ReachableIn(S.roots, S.children)
      IN /\ S.out = "ok"
         /\ \A n \in within : findById(S.nodeIndex, S.idOf[n]) = n
         /\ \A i \in Ids : findById(S.nodeIndex, i) \in within \cup {NoNode}
         /\ \A k \in 1..Len(flat) :
              Unresolved(flat, k) =>
                /\ findById(S.nodeIndex, flat[k].id) = NoNode
                /\ \A n \in within : S.idOf[n] # flat[k].id

\* The nodes of the forest that have n below them or are n.
Above(n) == {m \in Reachable : n \in Subtree(m, children)}

\* C24: for nodes a and b of a forest of the data model, findPath(a, b)
\* returns null exactly when no root is above both; otherwise the sequence
\* starts at a, ends at b, holds the deepest node above both exactly once,
\* repeats no node, and every two neighbours are parent and child;
\* findPath(a, a) returns [a].
C24_FindPathThroughCommonAncestor ==
  WellFormed =>
    \A a, b \in Reachable :
      LET r == findPath(a, b, parent)
          p == r.path
          common == Above(a) \cap Above(b)
      IN /\ r.out = "ok"
         /\ r.found <=> common # {}
         /\ r.found =>
              /\ p # <<>>
              /\ p[1] = a /\ p[Len(p)] = b
              /\ \A i, j \in 1..Len(p) : p[i] = p[j] => i = j
              /\ \E i \in 1..Len(p) :
                   /\ p[i] \in common
                   /\ \A m \in common : Level(m) <= Level(p[i])
              /\ \A i \in 1..(Len(p) - 1) :
                   parent[p[i]] = p[i + 1] \/ parent[p[i + 1]] = p[i]
         /\ a = b => r.found /\ p = <<a>>

\* C24 witness: a root and its child joined in both directions, and no
\* path from the child to a second root.
C24_Witness ==
  /\ WellFormed
  /\ \E a \in Reachable, b \in Range(roots) :
       /\ parent[a] # NoNode
       /\ parent[a] # b
       /\ findPath(a, parent[a], parent).path = <<a, parent[a]>>
       /\ findPath(parent[a], a, parent).path = <<parent[a], a>>
       /\ ~findPath(a, b, parent).found

\* C25: when the parent links above n end, getPath(n) is the chain of
\* parents from a node without parent down to n, each entry the parent of
\* the next, and getAncestors(n) is the same chain without n, nearest
\* first; in a forest of the data model both return, the chain starts at
\* the root above n, and for a root they are [root] and [].
C25_PathIsParentChain ==
  \A n \in created :
    LET r == getPath(n, parent)
        p == r.path
        s == getAncestors(n, parent)
    IN /\ r.out = "ok" =>
            /\ p[Len(p)] = n
            /\ parent[p[1]] = NoNode
            /\ \A i \in 1..(Len(p) - 1) : p[i] = parent[p[i + 1]]
            /\ s.out = "ok"
            /\ s.ancestors = Reverse(SubSeq(p, 1, Len(p) - 1))
       /\ (WellFormed /\ n \in Reachable) =>
            /\ r.out = "ok"
            /\ p[1] \in Range(roots) \cap Above(n)
            /\ n \in Range(roots) => p = <<n>> /\ s.ancestors = <<>>

\* C25 witness: a node two levels below its root.
C25_Witness ==
  /\ WellFormed
  /\ \E n \in Reachable :
       /\ Len(getPath(n, parent).path) = 3
       /\ getPath(n, parent).path[1] \in Range(roots)
       /\ getAncestors(n, parent).ancestors = <<parent[n], parent[parent[n]]>>

\* The errors of one kind in a validateTree result.
ErrorsOf(r, kind) == SelectSeq(r.errors, LAMBDA e : e.kind = kind)

\* Reachable nodes that carry id i.
Carriers(i) == {n \in Reachable : idOf[n] = i}

\* C26: in a forest where every reachable node has one holder, an id
\* carried by k > 1 reachable nodes makes validateTree() return valid =
\* false with exactly one duplicate error for that id, with count k; an id
\* carried by one node gets no duplicate error.
C26_OneDuplicateErrorPerId ==
  LET r == validateTree(Here)
  IN EachHeldOnce =>
       /\ r.out = "ok"
       /\ \A i \in Ids :
            LET k == Cardinality(Carriers(i))
                found == SelectSeq(r.errors,
                                   LAMBDA e : e.kind = "duplicate" /\ e.id = i)
            IN /\ k > 1 => ~r.valid /\ found = <<Error("duplicate", i, k)>>
               /\ k <= 1 => found = <<>>

\* C26 witness: an id carried by two nodes of the forest, reported once
\* with count 2.
C26_Witness ==
  /\ EachHeldOnce
  /\ \E i \in Ids :
       /\ Cardinality(Carriers(i)) = 2
       /\ ErrorsOf(validateTree(Here), "duplicate") = <<Error("duplicate", i, 2)>>

\* C27: a forest built by addRoot of new nodes, addNodeAsChild and
\* addChildren with ids not present, and removeNode, removeChildren and
\* moveNode calls between nodes of the forest, passes validation (a call
\* that throws leaves such a forest too): validateTree() returns valid =
\* true with no errors, and hasCircularReference() returns false.
C27_ContractForestsAreValid ==
  /\ validateTree(Here) = [out |-> "ok", valid |-> TRUE, errors |-> <<>>]
  /\ hasCircularReference(Here) = [out |-> "ok", value |-> FALSE]

\* C27 witness: a forest of three levels, after a contract-keeping
\* moveNode, that validates.
C27_Witness ==
  /\ lastOp = Call("moveNode", "ok")
  /\ \E n \in Reachable : parent[n] # NoNode /\ parent[parent[n]] # NoNode
  /\ validateTree(Here).valid
  /\ ~hasCircularReference(Here).value

\* Nodes of the forest that are their own descendants through children
\* links.
OnCycle == {n \in Reachable : n \in DescendantsOf(n)}

\* C28 (stated as claimed): hasCircularReference() returns true if and only
\* if some node reachable from roots is its own descendant.
C28_TrueExactlyOnCycle ==
  /\ hasCircularReference(Here).out = "ok"
  /\ hasCircularReference(Here).value <=> OnCycle # {}

\* C29 (stated as claimed): when some node reachable from roots is its own
\* descendant, validateTree() terminates and returns valid = false, with a
\* circular error for such a node, reported once.
C29_CycleIsReportedOnce ==
  OnCycle # {} =>
    LET r == validateTree(Here)
    IN /\ r.out = "ok"
       /\ ~r.valid
       /\ \E n \in OnCycle :
            ErrorsOf(r, "circular") = <<Error("circular", idOf[n], 0)>>

\* C30 (stated as claimed): after removeAllRoots(), whatever calls came
\* before, roots is empty and the index is empty: countNodes() = 0 and
\* findById gives no node for any id.
C30_RemoveAllRootsEmptiesForest ==
  LET S == removeAllRoots(Here)
  IN /\ S.out = "ok"
     /\ S.roots = <<>>
     /\ countNodes(S.nodeIndex) = 0
     /\ \A i \in Ids : findById(S.nodeIndex, i) = NoNode

\* C31 (stated as claimed): when every node passed to addRoot is not in the
\* forest, every added id is absent from the index, every other node
\* argument is reachable from roots and moveNode is not called with
\* newParent equal to node, the forest is well formed after each call: the
\* index equals the reachable set, every non-root node occurs exactly once
\* in its parent's children, roots have no parent, and there is no cycle.
C31_ContractKeepsForestWellFormed ==
  /\ \A n \in Reachable : findById(nodeIndex, idOf[n]) = n
  /\ \A i \in Ids : findById(nodeIndex, i) \in Reachable \cup {NoNode}
  /\ \A n \in Reachable \ Range(roots) :
       /\ parent[n] # NoNode
       /\ Occurrences(children[parent[n]], n) = 1
  /\ \A i \in 1..Len(roots) : parent[roots[i]] = NoNode
  /\ \A n \in Reachable : n \notin DescendantsOf(n) /\ n \notin AncestorsOf(n)

\* C32 (stated as claimed): after any sequence of public mutations,
\* moveNode(n, n) among them, getPath, getAncestors, isAncestorOf, findPath
\* and the cycle check of moveNode return for all nodes the forest has
\* handed out.
C32_ParentWalksTerminate ==
  \A a, b \in created :
    /\ getPath(a, parent).out = "ok"
    /\ getAncestors(a, parent).out = "ok"
    /\ isAncestorOf(a, b, parent) # "hang"
    /\ findPath(a, b, parent).out = "ok"
    /\ moveNode(Here, a, b).out # "hang"

\* C33 (stated as claimed): deserializeFlat terminates for every finite
\* record list, lists with a parentId cycle or a record naming its own id
\* as parentId among them: its loops and the recursion of
\* indexNodeAndChildren come to an end and the call returns.
C33_FlatLoadTerminates ==
  \A flat \in FlatInputs :
    (Running /\ Cardinality(created) + Len(flat) <= MaxNodes
       /\ removeAllRoots(Here).out = "ok") =>
      deserializeFlat(Here, flat).out = "ok"

\* C34 (stated as claimed): whenever deserialize rejects, for an unparsable
\* text, a version mismatch, a missing roots array or a roots entry that is
\* no node with a value, roots and the index are as they were before.
C34_RejectedLoadChangesNothing ==
  \A text \in Texts :
    Cardinality(created) + Size(text.roots) <= MaxNodes =>
      LET S == deserialize(Here, text)
      IN S.out # "ok" => S.roots = roots /\ S.nodeIndex = nodeIndex

\* C35 (stated as claimed, for the forests of the data model):
\* removeNode(m) deletes no index entry of a node that is reachable from
\* roots after the call, whatever m is: a node of the forest or a node of
\* a subtree removed earlier.
C35_RemoveKeepsEntriesOfForest ==
  \A m \in created :
    LET S == removeNode(Here, m)
    IN WellFormed => \A n \in ReachableIn(S.roots, S.children) :
         findById(nodeIndex, idOf[n]) = n => findById(S.nodeIndex, idOf[n]) = n

\* C36 (stated as claimed): in the forest cloneForest() returns and in the
\* subtree cloneNode() returns the clone root has no parent and every other
\* cloned node's parent link is the cloned node whose children hold it, so
\* the clone of a valid forest has the same countNodes() and passes
\* validateTree().
C36_ClonesAreLinked ==
  WellFormed =>
    /\ LET D == cloneForest(Here)
       IN /\ \A i \in 1..Len(D.roots) : D.parent[D.roots[i]] = NoNode
          /\ \A n \in D.created : \A k \in Range(D.children[n]) : D.parent[k] = n
          /\ countNodes(D.nodeIndex) = countNodes(nodeIndex)
          /\ validateTree(D).valid
    /\ \A m \in Reachable :
         LET c == cloneNode(m, Here)
         IN /\ c.D.parent[c.node] = NoNode
            /\ \A n \in c.D.created :
                 \A k \in Range(c.D.children[n]) : c.D.parent[k] = n

\* How many calls of handler h the call list `calls` holds.
CallsOf(calls, h) == Cardinality({i \in 1..Len(calls) : calls[i] = h})

C38_BatchStopsAtAbsentValue ==
  \A p \in created : \A vals \in SeqsUpTo(Ids \cup {NoValue}, MaxBatch) :
    Cardinality(created) + Leading(vals) <= MaxNodes =>
      LET S == addChildren(Here, p, vals)
          k == Leading(vals)
          before == Len(children[p])
          added == SubSeq(S.children[p], before + 1, Len(S.children[p]))
      IN /\ S.out = IF k < Len(vals) THEN "ErrMissingArgument" ELSE "ok"
         /\ SubSeq(S.children[p], 1, before) = children[p]
         /\ Len(added) = k
         /\ S.created \ created = Range(added)
         /\ Cardinality(Range(added)) = k
         /\ \A i \in 1..k :
              /\ added[i] \notin created
              /\ S.idOf[added[i]] = vals[i]
              /\ S.parent[added[i]] = p
              /\ S.children[added[i]] = <<>>
              /\ \E j \in 1..k : /\ vals[j] = vals[i]
                                 /\ findById(S.nodeIndex, vals[i]) = added[j]
         /\ S.emitted = [i \in 1..k |-> Event("onNodeAdded", added[i])]
         /\ S.heard = Deliveries(S.emitted, eventHandlers)

\* An addChildren call has thrown at its second value after the first was
\* added and its event delivered to a handler.
C38_Witness ==
  /\ lastOp = Call("addChildren", "ErrMissingArgument")
  /\ Len(emitted) = 1
  /\ emitted[1].event = "onNodeAdded"
  /\ heard # <<>>
  /\ parent[emitted[1].node] # NoNode
  /\ findById(nodeIndex, idOf[emitted[1].node]) = emitted[1].node

\* The children lists read last to first.
Mirrored(ch) == [n \in Nodes |-> Reverse(ch[n])]

\* The entries of a walk whose children the walk goes on to.
Expanded(visits, ch, maxDepth) ==
  {i \in 1..Len(visits) :
     /\ maxDepth = NoLimit \/ visits[i].depth < maxDepth
     /\ Len(ch[visits[i].node]) >= 2}

\* C39 (stated as claimed): for the same start node and maxDepth the
\* post-order callback sequence is exactly the reverse of the pre-order
\* callback sequence.
C39_PostOrderIsReversedPreOrder ==
  EachHeldOnce =>
    \A n \in Reachable : \A maxDepth \in Depths \cup {NoLimit} :
      LET pre == traverseSubtree(n, "pre-order", 0, children, maxDepth)
          post == traverseSubtree(n, "post-order", 0, children, maxDepth)
      IN post.visits = Reverse(pre.visits)

\* C39 (amended): for the same start node and maxDepth the first pass of
\* post-order records the nodes in the order pre-order visits them when
\* every children list is read last to first, and the post-order callback
\* sequence is the reverse of that record; it is the reverse of the
\* pre-order callback sequence exactly when no node whose children are
\* walked has two or more children.
C39_PostOrderIsReversedMirroredPreOrder ==
  \A n \in created : \A maxDepth \in Depths \cup {NoLimit} :
    LET pre == traverseSubtree(n, "pre-order", 0, children, maxDepth)
        mirror == traverseSubtree(n, "pre-order", 0, Mirrored(children), maxDepth)
        post == traverseSubtree(n, "post-order", 0, children, maxDepth)
    IN /\ post.diverges = pre.diverges
       /\ ~post.diverges => post.visits = Reverse(mirror.visits)
       /\ (EachHeldOnce /\ n \in Reachable) =>
            /\ ~post.diverges
            /\ post.visits = Reverse(pre.visits)
                 <=> Expanded(pre.visits, children, maxDepth) = {}

\* A node of the forest has two children: post-order from it calls back
\* first child, second child, node, and pre-order node, first child,
\* second child.
C39_Witness ==
  /\ EachHeldOnce
  /\ \E n \in Reachable :
       /\ Len(children[n]) = 2
       /\ traverseSubtree(n, "post-order", 0, children, 1).visits
            = <<[node |-> children[n][1], depth |-> 1],
                [node |-> children[n][2], depth |-> 1],
                [node |-> n, depth |-> 0]>>
       /\ traverseSubtree(n, "pre-order", 0, children, 1).visits
            = <<[node |-> n, depth |-> 0],
                [node |-> children[n][1], depth |-> 1],
                [node |-> children[n][2], depth |-> 1]>>

====
